---- MODULE Spec2Model ----
(***************************************************************************)
(* A model of depsonar (DepRadar): the dashboard's scan trigger and the    *)
(* background checker it runs, the health score, the osv.dev batch query,  *)
(* the documentation fetcher, the update-type classifier and the package   *)
(* inventory.                                                              *)
(*                                                                         *)
(* Each area has its own specification over its own group of variables;    *)
(* the other groups stay at their idle values:                             *)
(*   Spec            dashboard handleRequest + checker main                *)
(*   SpecScore       the health score of checker main                      *)
(*   SpecOsv         queryOsv                                              *)
(*   SpecDocs        fetchLibraryDocs                                      *)
(*   SpecUpdateType  getUpdateType                                         *)
(*   SpecInventory   getInstalledPackages                                  *)
(*   SpecSeverity    mapSeverity                                           *)
(*   SpecStrip       the operator prefix of a declared version             *)
(*   SpecMigrate     detectMigration and walkFiles                         *)
(*   SpecFirstFound  fetchFirstFound, fetch by fetch                       *)
(* SpecLive is Spec with the fairness of the event loop.                   *)
(***************************************************************************)
EXTENDS Integers, Sequences, FiniteSets, TLC

VARIABLES
  \* ---- dashboard.ts / checker ----
  scanning,     \* dashboard.ts: let scanning = false
  alive,        \* the dashboard process is running (FALSE after process.exit)
  hpc,          \* per request: position of its handleRequest invocation
  hroute,       \* per request: the route it asked for
  hresp,        \* per request: the response written
  run,          \* per request: the runChecker() (checker main) call it made
  cache,        \* the shared cache file
  \* ---- health score ----
  scPc, scOutdated, scMajor, scScore,
  \* ---- queryOsv ----
  osvPc, osvN, osvI, osvVulns, osvRequests, osvOutcomes, osvRejected,
  \* ---- fetchLibraryDocs ----
  docPc, docIn, docMeta, docResult, docFetches, docRejected,
  \* ---- getUpdateType ----
  utPc, utCurrent, utLatest, utResult,
  \* ---- getInstalledPackages ----
  invPc, invFs, invResult, invThrew,
  \* ---- mapSeverity ----
  sevPc, sevScore, sevResult,
  \* ---- operator stripping of a declared version ----
  strPc, strIn, strOut,
  \* ---- detectMigration ----
  migPc,        \* position of the caller of detectMigration
  migIn,        \* the project: framework, package.json, node_modules, file tree
  migRegex,     \* lastIndex of the regex of every pattern (module state)
  migResults,   \* the MigrationResult of each call made so far
  migFx,        \* what the last call listed and read in the file tree
  \* ---- fetchFirstFound ----
  ffPc,         \* position of one fetchFirstFound call
  ffResponses,  \* what the network does with the fetch of each path
  ffResults,    \* the results array of Promise.all, by position
  ffArrival,    \* the fetches settled so far, in the order they settled
  ffReturn      \* the string the call resolved to

dashVars  == <<scanning, alive, hpc, hroute, hresp, run, cache>>
scoreVars == <<scPc, scOutdated, scMajor, scScore>>
osvVars   == <<osvPc, osvN, osvI, osvVulns, osvRequests, osvOutcomes, osvRejected>>
docVars   == <<docPc, docIn, docMeta, docResult, docFetches, docRejected>>
utVars    == <<utPc, utCurrent, utLatest, utResult>>
invVars   == <<invPc, invFs, invResult, invThrew>>
sevVars   == <<sevPc, sevScore, sevResult>>
strVars   == <<strPc, strIn, strOut>>
migVars   == <<migPc, migIn, migRegex, migResults, migFx>>
ffVars    == <<ffPc, ffResponses, ffResults, ffArrival, ffReturn>>
vars      == <<dashVars, scoreVars, osvVars, docVars, utVars, invVars,
               sevVars, strVars, migVars, ffVars>>

----------------------------------------------------------------------------
(* Helpers *)

Min(a, b) == IF a <= b THEN a ELSE b
Max(a, b) == IF a >= b THEN a ELSE b

\* The sequences over S of length at most n.
SeqsUpTo(S, n) == UNION {[1..k -> S] : k \in 0..n}

\* How many elements of sequence s satisfy the boolean it holds.
RECURSIVE CountTrue(_)
CountTrue(s) ==
  IF s = <<>> THEN 0
  ELSE (IF Head(s) THEN 1 ELSE 0) + CountTrue(Tail(s))

----------------------------------------------------------------------------
(* Idle values of each group, for the specifications that do not use it *)

DashIdle ==
  /\ scanning = FALSE /\ alive = TRUE
  /\ hpc = <<>> /\ hroute = <<>> /\ hresp = <<>> /\ run = <<>>
  /\ cache = [present |-> FALSE, projects |-> <<>>]

ScoreIdle == scPc = "idle" /\ scOutdated = 0 /\ scMajor = 0 /\ scScore = 0

OsvIdle ==
  /\ osvPc = "idle" /\ osvN = 0 /\ osvI = 0 /\ osvVulns = <<>>
  /\ osvRequests = <<>> /\ osvOutcomes = <<>> /\ osvRejected = FALSE

DocIdle ==
  /\ docPc = "idle" /\ docIn = <<>> /\ docMeta = <<>> /\ docResult = <<>>
  /\ docFetches = <<>> /\ docRejected = FALSE

UtIdle == utPc = "idle" /\ utCurrent = <<>> /\ utLatest = <<>> /\ utResult = "none"

InvIdle == invPc = "idle" /\ invFs = <<>> /\ invResult = <<>> /\ invThrew = FALSE
SevIdle == sevPc = "idle" /\ sevScore = <<>> /\ sevResult = "none"
StrIdle == strPc = "idle" /\ strIn = <<>> /\ strOut = <<>>
MigIdle ==
  /\ migPc = "idle" /\ migIn = <<>> /\ migRegex = <<>>
  /\ migResults = <<>> /\ migFx = <<>>
FfIdle ==
  /\ ffPc = "idle" /\ ffResponses = <<>> /\ ffResults = <<>>
  /\ ffArrival = <<>> /\ ffReturn = <<>>

----------------------------------------------------------------------------
(* Bounds *)

MaxRequests == 2    \* requests the dashboard receives
MaxProjects == 2    \* projects discoverProjects() finds
MaxOutdated == 1    \* outdated packages getOutdated() reports for a project

----------------------------------------------------------------------------
(* Checker: the health score (checker main, the score lines)               *)

OutdatedPenalty == 3     \* score -= Math.min(outdatedCount * 3, 40)
OutdatedCap     == 40
MajorPenalty    == 10    \* score -= majorCount * 10
ScoreMax        == 100   \* let score = 100; Math.min(100, score)

\* A plausible slip: the outdated penalty is not capped.
HealthScoreUncapped(outdatedCount, majorCount) ==
  LET s1 == ScoreMax - outdatedCount * OutdatedPenalty
      s2 == s1 - majorCount * MajorPenalty
  IN  Max(0, Min(ScoreMax, s2))

HealthScore(outdatedCount, majorCount) ==
  LET s0 == ScoreMax
      s1 == s0 - Min(outdatedCount * OutdatedPenalty, OutdatedCap)
      s2 == s1 - majorCount * MajorPenalty
  IN  Max(0, Min(ScoreMax, s2))

----------------------------------------------------------------------------
(* Dashboard and checker                                                   *)

Requests == 1..MaxRequests
Routes   == {"scan", "status", "other"}

\* What getOutdated(info.path, info) returns for a project: the outdated
\* packages, each with what isMajorUpdate(current, latest) says of it.
OutdatedMaps == SeqsUpTo(BOOLEAN, MaxOutdated)

NoRun == [pc |-> "idle", n |-> 0, k |-> 0, entries |-> <<>>, writes |-> 0,
          skipped |-> {}]

DashInit ==
  /\ scanning = FALSE
  /\ alive = TRUE
  /\ hpc = [r \in Requests |-> "new"]
  /\ hroute = [r \in Requests |-> "none"]
  /\ hresp = [r \in Requests |-> "none"]
  /\ run = [r \in Requests |-> NoRun]
  /\ cache = [present |-> FALSE, projects |-> <<>>]

\* The cache entry checker main pushes for project p.
CacheEntryOf(p, outdated) ==
  LET outdatedCount == Len(outdated)
      majorCount == CountTrue(outdated)
  IN  [project |-> p, outdatedCount |-> outdatedCount, majorCount |-> majorCount,
       securityIssues |-> 0, score |-> HealthScore(outdatedCount, majorCount)]


RunInProgress(r) == run[r].pc \in {"discover", "loop", "write"}

\* A plausible slip: the scanning flag is never tested.
HandleScanNoGuard(r) ==
  /\ scanning' = TRUE
  /\ hresp' = [hresp EXCEPT ![r] = "started"]
  /\ run' = [run EXCEPT ![r].pc = "discover"]
  /\ hpc' = [hpc EXCEPT ![r] = "await"]

\* A plausible slip: the 409 branch answers but does not return.
HandleScanNoReturn(r) ==
  /\ scanning' = TRUE
  /\ hresp' = [hresp EXCEPT ![r] = IF scanning THEN "409" ELSE "started"]
  /\ run' = [run EXCEPT ![r].pc = "discover"]
  /\ hpc' = [hpc EXCEPT ![r] = "await"]

\* POST /api/scan up to its await: the guard, the flag, the answer and the
\* call of runChecker().
HandleScan(r) ==
  IF scanning
  THEN /\ hresp' = [hresp EXCEPT ![r] = "409"]
       /\ hpc' = [hpc EXCEPT ![r] = "done"]
       /\ UNCHANGED <<scanning, run>>
  ELSE /\ scanning' = TRUE
       /\ hresp' = [hresp EXCEPT ![r] = "started"]
       /\ run' = [run EXCEPT ![r].pc = "discover"]
       /\ hpc' = [hpc EXCEPT ![r] = "await"]

\* GET /api/status: the cache (or the empty answer) with the scanning flag.
HandleStatus(r) ==
  /\ hresp' = [hresp EXCEPT ![r] = IF scanning THEN "status:scanning" ELSE "status:idle"]
  /\ hpc' = [hpc EXCEPT ![r] = "done"]
  /\ UNCHANGED <<scanning, run>>

\* Every other route: none reads or writes the scanning flag.
HandleOther(r) ==
  /\ hresp' = [hresp EXCEPT ![r] = "other"]
  /\ hpc' = [hpc EXCEPT ![r] = "done"]
  /\ UNCHANGED <<scanning, run>>

\* A request arrives and handleRequest runs up to its first await or return.
\* Requests are numbered in the order they arrive.
HandleRequest(r) ==
  /\ alive
  /\ hpc[r] = "new"
  /\ IF r = 1 THEN TRUE ELSE hpc[r - 1] # "new"
  /\ \E route \in Routes :
       /\ hroute' = [hroute EXCEPT ![r] = route]
       /\ CASE route = "scan"   -> HandleScan(r)
            [] route = "status" -> HandleStatus(r)
            [] OTHER            -> HandleOther(r)
  /\ UNCHANGED <<alive, cache>>
  /\ UNCHANGED <<scoreVars, osvVars, docVars, utVars, invVars,
               sevVars, strVars, migVars, ffVars>>

\* checker main: discoverProjects(), and process.exit(0) when it finds none.
MainDiscover(r) ==
  /\ alive
  /\ run[r].pc = "discover"
  /\ \E n \in 0..MaxProjects :
       IF n = 0
       THEN /\ run' = [run EXCEPT ![r].pc = "exited"]
            /\ alive' = FALSE
       ELSE /\ run' = [run EXCEPT ![r].pc = "loop", ![r].n = n, ![r].k = 1]
            /\ UNCHANGED alive
  /\ UNCHANGED <<scanning, hpc, hroute, hresp, cache>>
  /\ UNCHANGED <<scoreVars, osvVars, docVars, utVars, invVars,
               sevVars, strVars, migVars, ffVars>>

\* checker main: one iteration of the loop over the projects. getOutdated
\* throws (caught, the project is skipped) or the entry is pushed.
MainScanProject(r) ==
  /\ alive
  /\ run[r].pc = "loop"
  /\ LET k == run[r].k
         nextPc == IF k = run[r].n THEN "write" ELSE "loop"
     IN  \/ run' = [run EXCEPT ![r].skipped = @ \cup {k},
                               ![r].k = k + 1, ![r].pc = nextPc]
         \/ \E outdated \in OutdatedMaps :
              run' = [run EXCEPT ![r].entries = Append(@, CacheEntryOf(k, outdated)),
                                 ![r].k = k + 1, ![r].pc = nextPc]
  /\ UNCHANGED <<scanning, alive, hpc, hroute, hresp, cache>>
  /\ UNCHANGED <<scoreVars, osvVars, docVars, utVars, invVars,
               sevVars, strVars, migVars, ffVars>>

\* checker main: writeCache(entries) replaces the cache file, or throws and
\* the promise of main rejects. The locals of main are gone once it ends.
MainWriteCache(r) ==
  /\ alive
  /\ run[r].pc = "write"
  /\ \/ /\ cache' = [present |-> TRUE, projects |-> run[r].entries]
        /\ run' = [run EXCEPT ![r] = [NoRun EXCEPT !.pc = "returned", !.writes = run[r].writes + 1]]
     \/ /\ run' = [run EXCEPT ![r] = [NoRun EXCEPT !.pc = "rejected", !.writes = run[r].writes + 1]]
        /\ UNCHANGED cache
  /\ UNCHANGED <<scanning, alive, hpc, hroute, hresp>>
  /\ UNCHANGED <<scoreVars, osvVars, docVars, utVars, invVars,
               sevVars, strVars, migVars, ffVars>>

\* handleRequest after `await runChecker()` settled either way:
\* scanning = false.
ScanResume(r) ==
  /\ alive
  /\ hpc[r] = "await"
  /\ run[r].pc \in {"returned", "rejected"}
  /\ scanning' = FALSE
  /\ hpc' = [hpc EXCEPT ![r] = "done"]
  /\ UNCHANGED <<alive, hroute, hresp, run, cache>>
  /\ UNCHANGED <<scoreVars, osvVars, docVars, utVars, invVars,
               sevVars, strVars, migVars, ffVars>>

Init ==
  /\ DashInit /\ ScoreIdle /\ OsvIdle /\ DocIdle /\ UtIdle /\ InvIdle /\ SevIdle /\ StrIdle /\ MigIdle /\ FfIdle

Next ==
  \E r \in Requests :
    \/ HandleRequest(r)
    \/ MainDiscover(r)
    \/ MainScanProject(r)
    \/ MainWriteCache(r)
    \/ ScanResume(r)

Spec == Init /\ [][Next]_vars

----------------------------------------------------------------------------
(* Claims on the dashboard and the checker                                 *)

\* C1: under any interleaving of the requests handleRequest serves, at most
\* one runChecker() execution is in progress at any time.
C1_AtMostOneScan ==
  \A r1, r2 \in Requests : RunInProgress(r1) /\ RunInProgress(r2) => r1 = r2

\* C1's case: a scan is in progress while a later POST /api/scan has been
\* served.
C1_Witness ==
  \E r1, r2 \in Requests :
    /\ r1 < r2
    /\ RunInProgress(r1)
    /\ hroute[r2] = "scan" /\ hpc[r2] = "done"

\* C2: a POST /api/scan served while scanning is true is answered 409,
\* leaves the flag as it is and starts no scan, then or later: the scans
\* started are exactly the accepted triggers.
C2_RejectedNotQueued ==
  /\ [][\A r \in Requests :
          (scanning /\ hpc[r] = "new" /\ hpc'[r] # "new" /\ hroute'[r] = "scan")
            => (hresp'[r] = "409" /\ hpc'[r] = "done"
                /\ scanning' = scanning /\ run' = run)]_vars
  /\ [](\A r \in Requests :
          /\ hresp[r] = "409" => run[r].pc = "idle"
          /\ run[r].pc # "idle" <=> hresp[r] = "started")
  /\ [](Cardinality({r \in Requests : run[r].pc # "idle"})
          = Cardinality({r \in Requests : hresp[r] = "started"}))

\* C2's case: a trigger was rejected and the scan that was running has
\* since finished without the rejected trigger starting one.
C2_Witness ==
  \E r1, r2 \in Requests :
    /\ hresp[r2] = "409" /\ run[r2].pc = "idle"
    /\ run[r1].pc = "returned" /\ hpc[r1] = "done"
    /\ ~scanning

\* C7 as claimed: every invocation of checker main that has ended reached
\* the cache write exactly once, whatever
\* the number of projects (zero included) and whichever project scans threw;
\* a project whose scan threw is skipped and the others are what is written.
C7_EveryRunWritesOnce ==
  \A r \in Requests :
    /\ run[r].pc \in {"returned", "rejected", "exited"} => run[r].writes = 1
    /\ run[r].pc = "write" =>
         /\ Len(run[r].entries) + Cardinality(run[r].skipped) = run[r].n
         /\ \A i \in 1..Len(run[r].entries) :
              /\ run[r].entries[i].project \in (1..run[r].n) \ run[r].skipped
              /\ i > 1 => run[r].entries[i - 1].project < run[r].entries[i].project

\* C18 as claimed: the entries a background scan writes to the cache hold a
\* project only if its outdated count is not zero.
C18_OnlyOutdatedCached ==
  cache.present =>
    \A x \in 1..Len(cache.projects) : cache.projects[x].outdatedCount > 0

\* The event loop runs every continuation that is ready: a step of checker
\* main that is enabled is taken, and a handler whose awaited runChecker()
\* has settled resumes. Nothing is assumed of the requests that arrive.
Fairness ==
  \A r \in Requests :
    /\ WF_vars(MainDiscover(r))
    /\ WF_vars(MainScanProject(r))
    /\ WF_vars(MainWriteCache(r))
    /\ WF_vars(ScanResume(r))

SpecLive == Init /\ [][Next]_vars /\ Fairness

\* C28 as claimed: once a POST /api/scan has been accepted the scanning
\* flag is eventually false again, its handler done, whether the run
\* resolves or rejects; a POST /api/scan served while the flag is false is
\* accepted, so the flag is never left true once no scan is running.
C28_ScanningEventuallyReset ==
  /\ \A r \in Requests :
       (hresp[r] = "started") ~> (~scanning /\ hpc[r] = "done")
  /\ [][\A r \in Requests :
          (~scanning /\ hpc[r] = "new" /\ hpc'[r] # "new" /\ hroute'[r] = "scan")
            => hresp'[r] = "started"]_vars

----------------------------------------------------------------------------
(* The health score as a function of the two counts                        *)

MaxCount == 20    \* the counts the score is computed for

ScoreInit ==
  /\ scPc = "input"
  /\ scOutdated \in 0..MaxCount
  /\ scMajor \in 0..MaxCount
  /\ scScore = 0

\* The score lines of checker main on (outdatedCount, majorCount).
ComputeScore ==
  /\ scPc = "input"
  /\ scScore' = HealthScore(scOutdated, scMajor)
  /\ scPc' = "done"
  /\ UNCHANGED <<scOutdated, scMajor>>
  /\ UNCHANGED <<dashVars, osvVars, docVars, utVars, invVars,
               sevVars, strVars, migVars, ffVars>>

InitScore == ScoreInit /\ DashIdle /\ OsvIdle /\ DocIdle /\ UtIdle /\ InvIdle /\ SevIdle /\ StrIdle /\ MigIdle /\ FfIdle

NextScore == ComputeScore

SpecScore == InitScore /\ [][NextScore]_vars

\* C8: the score is max(0, min(100, 100 - min(3*outdated, 40) - 10*major)):
\* it lies in 0..100, is 100 with nothing outdated (then nothing is a major
\* behind either), 60 for 20 outdated and no major, 87 for 1 outdated that
\* is a major behind.
C8_HealthScore ==
  scPc = "done" =>
    LET capped == IF 3 * scOutdated < 40 THEN 3 * scOutdated ELSE 40
        raw    == 100 - capped - 10 * scMajor
    IN  /\ scScore = (IF raw < 0 THEN 0 ELSE IF raw > 100 THEN 100 ELSE raw)
        /\ scScore \in 0..100
        /\ (scOutdated = 0 /\ scMajor = 0) => scScore = 100
        /\ (scOutdated = 20 /\ scMajor = 0) => scScore = 60
        /\ (scOutdated = 1 /\ scMajor = 1) => scScore = 87

\* C8's case: the score was computed for 20 outdated packages, where the cap
\* of 40 applies.
C8_Witness == scPc = "done" /\ scOutdated = 20 /\ scMajor = 0 /\ scScore = 60

----------------------------------------------------------------------------
(* queryOsv (services/osv.ts)                                              *)

BatchSize == 100    \* for (let i = 0; i < queries.length; i += 100)
MaxPkgs   == 250    \* the longest package list queried

\* The package lists queried: the first n packages of one inventory. Names
\* are distinct; the version varies with the position.
PkgName(k)    == 1000 + 7 * k
PkgVersion(k) == (k % 3) + 1
Inventory(n)  == [x \in 1..n |-> [name |-> PkgName(x - 1), version |-> PkgVersion(x - 1)]]

Ecosystem == "npm"

\* mapSeverity; a score is <<>> (undefined) or <<s>> with s in tenths
\* (90 is 9.0).
MapSeverity(score) ==
  IF score = <<>> THEN "moderate"
  ELSE IF score[1] = 0 THEN "moderate"
  ELSE IF score[1] >= 90 THEN "critical"
  ELSE IF score[1] >= 70 THEN "high"
  ELSE IF score[1] >= 40 THEN "moderate"
  ELSE "low"

\* const queries = packages.map(p => ({package: {name, ecosystem}, version}))
QueriesOf(packages) ==
  [x \in 1..Len(packages) |->
     [name |-> packages[x].name, ecosystem |-> Ecosystem, version |-> packages[x].version]]

\* queries.slice(i, i + 100), i counted from 0.
BatchOf(queries, i) ==
  SubSeq(queries, i + 1, Min(i + BatchSize, Len(queries)))

\* The vulnerability index: the advisories it knows for a queried package.
\* Every 25th package of the inventory has one, every 50th two.
AdvisoriesFor(q) ==
  LET k == (q.name - 1000) \div 7
      adv(n, sc) == [id |-> 10 * q.name + n, score |-> sc, about |-> q.name]
  IN  IF k % 50 = 0 THEN <<adv(1, <<95>>), adv(2, <<>>)>>
      ELSE IF k % 25 = 0 THEN <<adv(1, <<55>>)>>
      ELSE <<>>

\* An advisory the index returns in a result no query asked for.
StrayAdvisory == [id |-> 7, score |-> <<75>>, about |-> 0]

\* The body of a 2xx answer to a batch: one result per query, in the order
\* of the queries.
ResultsFor(batch) ==
  [x \in 1..Len(batch) |-> [kind |-> "obj", vulns |-> AdvisoriesFor(batch[x])]]

\* What the fetch of one batch can come to.
\*   neterr, timeout : fetch() rejects
\*   non2xx          : resp.ok is false
\*   badjson         : resp.json() rejects
\*   noresults       : JSON without a results array
\*   nullentry       : results with a null where a result object belongs
\*   ok              : one result per query
\*   short, long     : one result fewer, one result more than queries
BatchOutcomes ==
  {"neterr", "timeout", "non2xx", "badjson", "noresults", "nullentry",
   "ok", "short", "long"}

FailedOutcomes == {"neterr", "timeout", "non2xx", "badjson", "noresults", "nullentry"}

\* Where the null of a nullentry body sits (counted from 1).
NullPosition(batch) == Min(2, Len(batch))

\* The results array of the body, for the outcomes that have one.
BodyResults(outcome, batch) ==
  LET full == ResultsFor(batch)
  IN  CASE outcome = "ok"        -> full
        [] outcome = "short"     -> SubSeq(full, 1, Len(full) - 1)
        [] outcome = "long"      -> Append(full, [kind |-> "obj", vulns |-> <<StrayAdvisory>>])
        [] outcome = "nullentry" ->
             [x \in 1..Len(full) |->
                IF x = NullPosition(batch) THEN [kind |-> "null", vulns |-> <<>>] ELSE full[x]]
        [] OTHER                 -> <<>>

\* A plausible slip: the package is looked up by its place in the batch.
PackageForInBatch(packages, i, j) == packages[j + 1]

\* const pkg = packages[i + j], i and j counted from 0.
PackageFor(packages, i, j) == packages[i + j + 1]

\* The OsvVulnerability pushed for one advisory of results[j] of the batch
\* at offset i; off and pos record where the advisory came from.
VulnOf(vuln, pkg, i, j) ==
  [id |-> vuln.id, severity |-> MapSeverity(vuln.score),
   package |-> pkg.name, ecosystem |-> Ecosystem, installed |-> pkg.version,
   about |-> vuln.about, off |-> i, pos |-> j]

\* The smallest element of a non-empty set of integers.
MinOf(S) == CHOOSE x \in S : \A y \in S : x <= y

\* The first j at which the loop over data.results throws: a null result
\* (result.vulns of null), or a result with advisories whose package
\* packages[i + j] is undefined (pkg.name of undefined). Len(results) when
\* the loop runs to its end.
FirstThrow(packages, i, results) ==
  LET bad == {j \in 0..(Len(results) - 1) :
                \/ results[j + 1].kind = "null"
                \/ /\ Len(results[j + 1].vulns) > 0
                   /\ i + j >= Len(packages)}
  IN  IF bad = {} THEN Len(results) ELSE MinOf(bad)

\* The vulnerabilities pushed for the results at the positions js, in the
\* order of the positions.
RECURSIVE PushAll(_, _, _, _)
PushAll(packages, i, results, js) ==
  IF js = {} THEN <<>>
  ELSE LET j == MinOf(js)
           result == results[j + 1]
           pkg == PackageFor(packages, i, j)
           pushed == [x \in 1..Len(result.vulns) |-> VulnOf(result.vulns[x], pkg, i, j)]
       IN  pushed \o PushAll(packages, i, results, js \ {j})

\* for (let j = 0; j < data.results.length; j++) { ... }: the vulnerabilities
\* pushed, up to the end of the results or to the first exception; a result
\* without advisories is passed over (continue).
MapResults(packages, i, results) ==
  LET stop == FirstThrow(packages, i, results)
      hits == {j \in 0..(stop - 1) : Len(results[j + 1].vulns) > 0}
  IN  PushAll(packages, i, results, hits)

\* The vulnerabilities one batch adds to vulns.
BatchVulns(packages, i, outcome, batch) ==
  IF outcome \in {"neterr", "timeout", "non2xx", "badjson", "noresults"}
  THEN <<>>
  ELSE MapResults(packages, i, BodyResults(outcome, batch))

\* A plausible slip: the next batch starts one query too far.
NextOffsetSkipping(i) == i + BatchSize + 1

\* i += 100
NextOffset(i) == i + BatchSize

osvPackages == Inventory(osvN)

OsvInit ==
  /\ osvPc = "loop"
  /\ osvN \in 0..MaxPkgs
  /\ osvI = 0
  /\ osvVulns = <<>>
  /\ osvRequests = <<>>
  /\ osvOutcomes = <<>>
  /\ osvRejected = FALSE

\* One iteration of the batch loop: the request, its outcome, the mapping of
\* its results, all inside the try.
OsvBatch ==
  /\ osvPc = "loop"
  /\ osvI < Len(QueriesOf(osvPackages))
  /\ LET batch == BatchOf(QueriesOf(osvPackages), osvI)
     IN  /\ osvRequests' = Append(osvRequests, batch)
         /\ \E outcome \in BatchOutcomes :
              /\ osvOutcomes' = Append(osvOutcomes, outcome)
              /\ osvVulns' = osvVulns \o BatchVulns(osvPackages, osvI, outcome, batch)
  /\ osvI' = NextOffset(osvI)
  /\ UNCHANGED <<osvPc, osvN, osvRejected>>
  /\ UNCHANGED <<dashVars, scoreVars, docVars, utVars, invVars,
               sevVars, strVars, migVars, ffVars>>

\* The loop ends: return vulns.
OsvReturn ==
  /\ osvPc = "loop"
  /\ osvI >= Len(QueriesOf(osvPackages))
  /\ osvPc' = "done"
  /\ UNCHANGED <<osvN, osvI, osvVulns, osvRequests, osvOutcomes, osvRejected>>
  /\ UNCHANGED <<dashVars, scoreVars, docVars, utVars, invVars,
               sevVars, strVars, migVars, ffVars>>

InitOsv == OsvInit /\ DashIdle /\ ScoreIdle /\ DocIdle /\ UtIdle /\ InvIdle /\ SevIdle /\ StrIdle /\ MigIdle /\ FfIdle

NextOsv == OsvBatch \/ OsvReturn

SpecOsv == InitOsv /\ [][NextOsv]_vars

----------------------------------------------------------------------------
(* Claims on queryOsv                                                      *)

\* The vulnerabilities in vulns that the batch at offset off pushed.
Contributed(off) == {x \in 1..Len(osvVulns) : osvVulns[x].off = off}

\* The (advisory, package) pairs the index knows for the queries of a batch.
KnownFor(batch) ==
  UNION {{<<AdvisoriesFor(batch[x])[y].id, batch[x].name>> :
            y \in 1..Len(AdvisoriesFor(batch[x]))} : x \in 1..Len(batch)}

\* C3 as claimed: whatever the outcomes of the batches, queryOsv does not
\* reject, a batch that failed (network error, timeout, non-2xx answer,
\* malformed body) contributes no vulnerability at all, and a batch that
\* succeeded contributes exactly the advisories the index knows for its
\* packages, whatever became of the other batches.
C3_FailedBatchContributesNothing ==
  /\ ~osvRejected
  /\ \A b \in 1..Len(osvOutcomes) :
       LET off == (b - 1) * 100
       IN  /\ osvOutcomes[b] \in FailedOutcomes => Contributed(off) = {}
           /\ osvOutcomes[b] = "ok" =>
                /\ {<<osvVulns[x].id, osvVulns[x].package>> : x \in Contributed(off)}
                     = KnownFor(osvRequests[b])
                /\ Cardinality(Contributed(off)) = Cardinality(KnownFor(osvRequests[b]))

\* C4: the advisories at position j of the batch at offset i are attributed
\* to packages[i + j], name and installed version, which is the package the
\* query at that position asked about; partitioning keeps the packages in
\* their order.
C4_PositionalAttribution ==
  LET packages == osvPackages
  IN  /\ \A x \in 1..Len(osvVulns) :
           LET v == osvVulns[x]
               k == v.off + v.pos
               b == (v.off \div 100) + 1
           IN  /\ k < osvN
               /\ v.package = packages[k + 1].name
               /\ v.installed = packages[k + 1].version
               /\ v.pos < Len(osvRequests[b]) =>
                    /\ osvRequests[b][v.pos + 1].name = v.package
                    /\ v.about = v.package
      /\ \A b \in 1..Len(osvRequests) : \A y \in 1..Len(osvRequests[b]) :
           /\ osvRequests[b][y].name = packages[(b - 1) * 100 + y].name
           /\ osvRequests[b][y].version = packages[(b - 1) * 100 + y].version

\* C4's case: an advisory of a later batch, not at the head of the batch, was
\* attributed.
C4_Witness ==
  \E x \in 1..Len(osvVulns) :
    /\ osvVulns[x].off >= 100 /\ osvVulns[x].pos > 0
    /\ osvVulns[x].package = PkgName(osvVulns[x].off + osvVulns[x].pos)

\* C5: n packages make exactly ceil(n / 100) requests, of at most 100
\* queries each, in the order of the packages (3 requests for 250 packages,
\* none for 0), whichever batches fail.
C5_RequestCount ==
  LET queries == QueriesOf(osvPackages)
  IN  /\ Len(osvRequests) = Len(osvOutcomes)
      /\ \A b \in 1..Len(osvRequests) :
           /\ Len(osvRequests[b]) = (IF osvN - 100 * (b - 1) < 100
                                     THEN osvN - 100 * (b - 1) ELSE 100)
           /\ Len(osvRequests[b]) >= 1
           /\ osvRequests[b] = [y \in 1..Len(osvRequests[b]) |-> queries[100 * (b - 1) + y]]
      /\ osvPc = "done" =>
           /\ Len(osvRequests) = (osvN + 99) \div 100
           /\ osvN = 250 => Len(osvRequests) = 3
           /\ osvN = 0 => Len(osvRequests) = 0

\* C5's case: 250 packages were queried in 3 requests, one of which failed.
C5_Witness ==
  /\ osvPc = "done" /\ osvN = 250 /\ Len(osvRequests) = 3
  /\ \E b \in 1..3 : osvOutcomes[b] \in FailedOutcomes

\* C29 as claimed: every vulnerability emitted for a batch is attributed to
\* a package whose query was sent in the request of that batch: its index
\* i + j lies in [i, i + 100) and below the length of the list, also when
\* the response holds more or fewer results than the batch had queries.
C29_AttributedWithinBatch ==
  \A x \in 1..Len(osvVulns) :
    LET v == osvVulns[x]
        b == (v.off \div 100) + 1
    IN  /\ v.off + v.pos < v.off + 100
        /\ v.off + v.pos < osvN
        /\ \E y \in 1..Len(osvRequests[b]) : osvRequests[b][y].name = v.package

----------------------------------------------------------------------------
(* fetchLibraryDocs (services/osv.ts)                                      *)

MaxLive == 2    \* candidate paths of one fetchFirstFound that may answer

\* A path below the repository root: a directory ("" is the root) and a
\* file name.
Path(dir, file) == [dir |-> dir, file |-> file]
NoPath == Path("", "")

\* What fetchUrl resolves to: null, or a text of len characters in lines
\* lines read from src. EmptyString is "" (one empty line).
NullText    == [isNull |-> TRUE, src |-> NoPath, len |-> 0, lines |-> 0]
EmptyString == [isNull |-> FALSE, src |-> NoPath, len |-> 0, lines |-> 1]
TextOf(src, n, lines) == [isNull |-> FALSE, src |-> src, len |-> n, lines |-> lines]

\* JavaScript truthiness of a string | null.
Truthy(t) == ~t.isNull /\ t.len > 0

\* What the network does with one GET.
\*   neterr  : fetch() rejects (no connection, or the abort timer fired)
\*   non2xx  : an answer with res.ok false
\*   short   : 200 with a body of 50 characters on one line
\*   long    : 200 with a body of 51 characters or more, the document
RawResponses == {"neterr", "non2xx", "short", "long"}

FirstFoundMinLen == 50    \* if (r && r.length > 50) return r

\* A plausible slip: fetchUrl has no catch, a network error propagates.
FetchUrlNoCatch(src, response, lines) ==
  CASE response = "neterr" -> [threw |-> TRUE, text |-> NullText]
    [] response = "non2xx" -> [threw |-> FALSE, text |-> NullText]
    [] response = "short"  -> [threw |-> FALSE, text |-> TextOf(src, FirstFoundMinLen, 1)]
    [] OTHER               -> [threw |-> FALSE,
                               text |-> TextOf(src, FirstFoundMinLen + lines, lines)]

\* fetchUrl: null for a rejected fetch and for a non-2xx answer, the body
\* otherwise (a document of the given number of lines); it never throws.
FetchUrl(src, response, lines) ==
  CASE response = "neterr" -> [threw |-> FALSE, text |-> NullText]
    [] response = "non2xx" -> [threw |-> FALSE, text |-> NullText]
    [] response = "short"  -> [threw |-> FALSE, text |-> TextOf(src, FirstFoundMinLen, 1)]
    [] OTHER               -> [threw |-> FALSE,
                               text |-> TextOf(src, FirstFoundMinLen + lines, lines)]

\* The candidates of a list of n paths that may answer: the first
\* MaxLive - 1 and the last; every other candidate is not found.
LiveIndexes(n) == {x \in 1..n : x < MaxLive \/ x = n}

\* The responses to the parallel fetches of n candidate paths.
ResponseVectors(n) ==
  {[x \in 1..n |-> IF x \in LiveIndexes(n) THEN live[x] ELSE "non2xx"] :
     live \in [LiveIndexes(n) -> RawResponses]}

\* fetchFirstFound: all paths are fetched (Promise.all), then the first
\* result in the order of the paths that is longer than 50 characters is
\* returned, "" when there is none.
FetchFirstFound(paths, responses, lines) ==
  LET results == [x \in 1..Len(paths) |-> FetchUrl(paths[x], responses[x], lines)]
      good == {x \in 1..Len(paths) :
                 Truthy(results[x].text) /\ results[x].text.len > FirstFoundMinLen}
  IN  [threw   |-> \E x \in 1..Len(paths) : results[x].threw,
       text    |-> IF good = {} THEN EmptyString ELSE results[MinOf(good)].text,
       anyText |-> \E x \in 1..Len(paths) : ~results[x].text.isNull,
       anyLong |-> good # {}]

\* getMonorepoPaths: the files at the root, then the same files under
\* packages/<baseName>/.
GetMonorepoPaths(baseName, files) ==
  [x \in 1..Len(files) |-> Path("", files[x])] \o
  [x \in 1..Len(files) |-> Path(baseName, files[x])]

\* The packages documentation is asked for, with
\*   scoped : pkg.startsWith("@")
\*   base   : the part after the scope (pkg itself when not scoped)
Pkgs ==
  {[name |-> "svelte", scoped |-> FALSE, base |-> "svelte"],
   [name |-> "@sveltejs/kit", scoped |-> TRUE, base |-> "kit"],
   [name |-> "left-pad", scoped |-> FALSE, base |-> "left-pad"]}

\* const baseName = pkg.startsWith("@") ? pkg.split("/")[1] : pkg
BaseName(pkg) == IF pkg.scoped THEN pkg.base ELSE pkg.name

\* MIGRATION_PATHS, the entries of the packages above.
MigrationPaths(name) ==
  CASE name = "svelte" ->
         <<Path("documentation/docs/07-misc", "07-v5-migration-guide.md"),
           Path("packages/svelte", "CHANGELOG.md")>>
    [] name = "@sveltejs/kit" ->
         <<Path("documentation/docs/25-build-and-deploy", "99-migration-guide.md"),
           Path("packages/kit", "CHANGELOG.md")>>
    [] OTHER -> <<>>

\* const knownPaths = MIGRATION_PATHS[pkg] || MIGRATION_PATHS[baseName]
KnownPaths(pkg) ==
  IF MigrationPaths(pkg.name) # <<>> THEN MigrationPaths(pkg.name)
  ELSE MigrationPaths(BaseName(pkg))

ReadmeFiles    == <<"README.md", "readme.md", "Readme.md">>
ChangelogFiles == <<"CHANGELOG.md", "changelog.md", "CHANGES.md", "HISTORY.md", "History.md">>
GenericFiles   == <<"MIGRATION.md", "UPGRADING.md", "UPGRADE.md", "migration.md",
                    "upgrading.md", "docs/migration.md", "docs/upgrading.md",
                    "docs/MIGRATION.md">>

ReadmePaths == [x \in 1..Len(ReadmeFiles) |-> Path("", ReadmeFiles[x])]

EmbeddedMinLen == 100    \* if ((!readme || readme.length < 100) && gh)

\* The bodies the registry answers step 1 with.
\*   neterr, non2xx : fetchUrl gives null
\*   empty          : 200 with an empty body
\*   notjson        : 200 with a body JSON.parse rejects
\*   jsonnull       : 200 with the body null
\*   ok             : the metadata object of the package
MetaResponses == {"neterr", "non2xx", "empty", "notjson", "jsonnull", "ok"}

\* The repository field of the metadata: absent, a GitHub URL, or the URL
\* of another host.
RepoUrls == {"", "git+https://github.com/owner/repo.git", "https://gitlab.com/owner/repo"}

\* extractGitHubRepo: owner and repo of a github.com URL, null otherwise.
ExtractGitHubRepo(repoUrl) ==
  IF repoUrl = "git+https://github.com/owner/repo.git"
  THEN [found |-> TRUE, owner |-> "owner", repo |-> "repo"]
  ELSE [found |-> FALSE, owner |-> "", repo |-> ""]

\* The metadata objects: the repository URL and the length of the readme the
\* registry embeds (0 when it embeds none).
\* The fields of a parsed metadata body have the types NpmRegistryData
\* declares; a body that parses to a JSON scalar reads as the object with no
\* repository and no readme.
MetaObjects ==
  {[repoUrl |-> u, readmeLen |-> n] :
     u \in RepoUrls, n \in {0, EmbeddedMinLen - 1, EmbeddedMinLen, EmbeddedMinLen + 1}}

RegistryReadme == Path("registry", "readme")

ReadmeMaxLines    == 300    \* truncateDoc(..., 300), readme and migration guide
ChangelogMaxLines == 200    \* truncateDoc(..., 200), changelog
ContextLines      == 5      \* filterByQuery(text, query, contextLines = 5)

\* A text field of the result: the source it was read from, its lines, and
\* whether it was filtered and truncated. EmptyField is "".
EmptyField == [src |-> NoPath, lines |-> 0, filtered |-> FALSE, truncated |-> FALSE]

\* filterByQuery of a non-empty text. When no line holds a keyword the text
\* comes back whole; the documents that hold one hold it in their first
\* line, which is kept with the contextLines lines after it behind a
\* "\n...\n" separator (three lines).
FilterByQuery(text, hits) ==
  IF ~hits
  THEN [src |-> text.src, lines |-> text.lines, filtered |-> FALSE, truncated |-> FALSE]
  ELSE [src |-> text.src, lines |-> 3 + Min(text.lines, 1 + ContextLines),
        filtered |-> TRUE, truncated |-> FALSE]

\* truncateDoc: the first maxLines lines and a two-line marker when the text
\* is longer.
TruncateDoc(field, maxLines) ==
  IF field.lines <= maxLines THEN field
  ELSE [field EXCEPT !.lines = maxLines + 2, !.truncated = TRUE]

\* truncateDoc(query ? filterByQuery(text, query) : text, maxLines)
Shown(text, hasQuery, hits, maxLines) ==
  TruncateDoc(IF hasQuery THEN FilterByQuery(text, hits)
              ELSE FilterByQuery(text, FALSE), maxLines)

\* The document lengths, in lines, of the registry readme and the
\* repository files.
DocLineCounts == {1, ChangelogMaxLines + 1}

\* What is recorded of the fetches of a section: how many were issued,
\* whether any gave a body, whether any gave more than 50 characters.
NoFetch == [issued |-> 0, anyText |-> FALSE, anyLong |-> FALSE]

EmptyResult ==
  [readme |-> EmptyField, changelog |-> EmptyField, migrationGuide |-> EmptyField,
   repository |-> FALSE]

\* The calls: the package, whether a query is given and whether the
\* documents hold one of its keywords, the section options, the length of
\* the documents.
DocInputs ==
  {i \in [pkg : Pkgs, hasQuery : BOOLEAN, hits : BOOLEAN, lines : DocLineCounts,
          readme : BOOLEAN, changelog : BOOLEAN, migration : BOOLEAN] :
     i.hits => i.hasQuery}

DocInit ==
  /\ docPc = "meta"
  /\ docIn \in DocInputs
  /\ docMeta = [response |-> "none", repoUrl |-> "", readmeLen |-> 0]
  /\ docResult = EmptyResult
  /\ docFetches = [readme |-> NoFetch, changelog |-> NoFetch, migration |-> NoFetch]
  /\ docRejected = FALSE

\* The result of awaiting one fetchFirstFound, recorded for a section.
Fetched(prev, paths, ff) ==
  [issued |-> prev.issued + Len(paths), anyText |-> prev.anyText \/ ff.anyText,
   anyLong |-> prev.anyLong \/ ff.anyLong]

\* 1. the registry metadata: fetchUrl, JSON.parse; the call throws when
\* there is no body, when it is not JSON, and on the first property read of
\* a null body. 2. extractGitHubRepo.
DocFetchMetadata ==
  /\ docPc = "meta"
  /\ \E response \in MetaResponses :
       IF response = "ok"
       THEN \E m \in MetaObjects :
              /\ docMeta' = [response |-> response, repoUrl |-> m.repoUrl,
                             readmeLen |-> m.readmeLen]
              /\ docResult' = [docResult EXCEPT
                                 !.repository = ExtractGitHubRepo(m.repoUrl).found]
              /\ docPc' = "readme"
              /\ UNCHANGED docRejected
       ELSE /\ docMeta' = [docMeta EXCEPT !.response = response]
            /\ docRejected' = TRUE
            /\ docPc' = "done"
            /\ UNCHANGED docResult
  /\ UNCHANGED <<docIn, docFetches>>
  /\ UNCHANGED <<dashVars, scoreVars, osvVars, utVars, invVars,
               sevVars, strVars, migVars, ffVars>>

\* 3. the readme: the registry's copy, or the repository's when that copy is
\* missing or shorter than 100 characters and the repository is known.
DocReadme ==
  /\ docPc = "readme"
  /\ LET gh == ExtractGitHubRepo(docMeta.repoUrl)
         embedded == IF docMeta.readmeLen = 0 THEN EmptyString
                     ELSE TextOf(RegistryReadme, docMeta.readmeLen, docIn.lines)
     IN  IF ~docIn.readme
         THEN /\ docPc' = "changelog"
              /\ UNCHANGED <<docResult, docFetches, docRejected>>
         ELSE IF (~Truthy(embedded) \/ embedded.len < EmbeddedMinLen) /\ gh.found
         THEN \E responses \in ResponseVectors(Len(ReadmePaths)) :
                LET ff == FetchFirstFound(ReadmePaths, responses, docIn.lines)
                IN  /\ docFetches' = [docFetches EXCEPT
                                        !.readme = Fetched(@, ReadmePaths, ff)]
                    /\ IF ff.threw
                       THEN /\ docRejected' = TRUE /\ docPc' = "done"
                            /\ UNCHANGED docResult
                       ELSE /\ docResult' = [docResult EXCEPT !.readme =
                                 IF Truthy(ff.text)
                                 THEN Shown(ff.text, docIn.hasQuery, docIn.hits, ReadmeMaxLines)
                                 ELSE @]
                            /\ docPc' = "changelog"
                            /\ UNCHANGED docRejected
         ELSE /\ docResult' = [docResult EXCEPT !.readme =
                   IF Truthy(embedded)
                   THEN Shown(embedded, docIn.hasQuery, docIn.hits, ReadmeMaxLines)
                   ELSE @]
              /\ docPc' = "changelog"
              /\ UNCHANGED <<docFetches, docRejected>>
  /\ UNCHANGED <<docIn, docMeta>>
  /\ UNCHANGED <<dashVars, scoreVars, osvVars, utVars, invVars,
               sevVars, strVars, migVars, ffVars>>

\* A plausible slip: the changelog is fetched whether or not a repository
\* is known.
ChangelogWantedNoRepo(opts, gh) == opts.changelog

\* if (opts.changelog !== false && gh)
ChangelogWanted(opts, gh) == opts.changelog /\ gh.found

\* 4. the changelog, from the repository.
DocChangelog ==
  /\ docPc = "changelog"
  /\ LET gh == ExtractGitHubRepo(docMeta.repoUrl)
         paths == GetMonorepoPaths(BaseName(docIn.pkg), ChangelogFiles)
     IN  IF ChangelogWanted(docIn, gh)
         THEN \E responses \in ResponseVectors(Len(paths)) :
                LET ff == FetchFirstFound(paths, responses, docIn.lines)
                IN  /\ docFetches' = [docFetches EXCEPT !.changelog = Fetched(@, paths, ff)]
                    /\ IF ff.threw
                       THEN /\ docRejected' = TRUE /\ docPc' = "done"
                            /\ UNCHANGED docResult
                       ELSE /\ docResult' = [docResult EXCEPT !.changelog =
                                 IF Truthy(ff.text)
                                 THEN Shown(ff.text, docIn.hasQuery, docIn.hits, ChangelogMaxLines)
                                 ELSE @]
                            /\ docPc' = "migration"
                            /\ UNCHANGED docRejected
         ELSE /\ docPc' = "migration"
              /\ UNCHANGED <<docResult, docFetches, docRejected>>
  /\ UNCHANGED <<docIn, docMeta>>
  /\ UNCHANGED <<dashVars, scoreVars, osvVars, utVars, invVars,
               sevVars, strVars, migVars, ffVars>>

\* 5. the migration guide: the paths known for the package.
DocMigrationKnown ==
  /\ docPc = "migration"
  /\ LET gh == ExtractGitHubRepo(docMeta.repoUrl)
         paths == KnownPaths(docIn.pkg)
     IN  IF docIn.migration /\ gh.found /\ paths # <<>>
         THEN \E responses \in ResponseVectors(Len(paths)) :
                LET ff == FetchFirstFound(paths, responses, docIn.lines)
                IN  /\ docFetches' = [docFetches EXCEPT !.migration = Fetched(@, paths, ff)]
                    /\ IF ff.threw
                       THEN /\ docRejected' = TRUE /\ docPc' = "done"
                            /\ UNCHANGED docResult
                       ELSE /\ docResult' = [docResult EXCEPT !.migrationGuide =
                                 IF Truthy(ff.text)
                                 THEN Shown(ff.text, docIn.hasQuery, docIn.hits, ReadmeMaxLines)
                                 ELSE @]
                            /\ docPc' = "generic"
                            /\ UNCHANGED docRejected
         ELSE /\ docPc' = "generic"
              /\ UNCHANGED <<docResult, docFetches, docRejected>>
  /\ UNCHANGED <<docIn, docMeta>>
  /\ UNCHANGED <<dashVars, scoreVars, osvVars, utVars, invVars,
               sevVars, strVars, migVars, ffVars>>

\* 5. the migration guide: the generic file names, when the known paths
\* gave nothing; then return result.
DocMigrationGeneric ==
  /\ docPc = "generic"
  /\ LET gh == ExtractGitHubRepo(docMeta.repoUrl)
         paths == GetMonorepoPaths(BaseName(docIn.pkg), GenericFiles)
     IN  IF docIn.migration /\ gh.found /\ docResult.migrationGuide = EmptyField
         THEN \E responses \in ResponseVectors(Len(paths)) :
                LET ff == FetchFirstFound(paths, responses, docIn.lines)
                IN  /\ docFetches' = [docFetches EXCEPT !.migration = Fetched(@, paths, ff)]
                    /\ docRejected' = ff.threw
                    /\ docResult' = [docResult EXCEPT !.migrationGuide =
                         IF ~ff.threw /\ Truthy(ff.text)
                         THEN Shown(ff.text, docIn.hasQuery, docIn.hits, ReadmeMaxLines)
                         ELSE @]
         ELSE UNCHANGED <<docResult, docFetches, docRejected>>
  /\ docPc' = "done"
  /\ UNCHANGED <<docIn, docMeta>>
  /\ UNCHANGED <<dashVars, scoreVars, osvVars, utVars, invVars,
               sevVars, strVars, migVars, ffVars>>

InitDocs == DocInit /\ DashIdle /\ ScoreIdle /\ OsvIdle /\ UtIdle /\ InvIdle /\ SevIdle /\ StrIdle /\ MigIdle /\ FfIdle

NextDocs ==
  \/ DocFetchMetadata
  \/ DocReadme
  \/ DocChangelog
  \/ DocMigrationKnown
  \/ DocMigrationGeneric

SpecDocs == InitDocs /\ [][NextDocs]_vars

----------------------------------------------------------------------------
(* Claims on fetchLibraryDocs                                              *)

\* C6: fetchLibraryDocs rejects exactly when the metadata fetch of step 1
\* fails or gives an unusable body; the failure of a later fetch never
\* rejects the call, and a section all of whose fetches failed is left
\* empty while a section that found a document keeps it.
C6_RejectsOnlyOnMetadata ==
  /\ docRejected => docPc = "done" /\ docMeta.response # "ok"
  /\ docPc \notin {"meta", "idle"} /\ docMeta.response # "ok" => docRejected
  /\ docRejected =>
       /\ docResult = EmptyResult
       /\ docFetches.readme.issued + docFetches.changelog.issued
            + docFetches.migration.issued = 0
  /\ (docFetches.readme.issued > 0 /\ ~docFetches.readme.anyText)
       => docResult.readme = EmptyField
  /\ (docFetches.changelog.issued > 0 /\ ~docFetches.changelog.anyText)
       => docResult.changelog = EmptyField
  /\ (docFetches.migration.issued > 0 /\ ~docFetches.migration.anyText)
       => docResult.migrationGuide = EmptyField
  /\ docFetches.readme.anyLong => docResult.readme # EmptyField
  /\ docFetches.changelog.anyLong => docResult.changelog # EmptyField
  /\ docFetches.migration.anyLong => docResult.migrationGuide # EmptyField

\* C6's case: the call returned although every changelog fetch failed, with
\* the changelog empty and the readme found in the repository.
C6_Witness ==
  /\ docPc = "done" /\ ~docRejected
  /\ docFetches.changelog.issued > 0 /\ ~docFetches.changelog.anyText
  /\ docResult.changelog = EmptyField
  /\ docFetches.readme.anyLong /\ docResult.readme # EmptyField

\* C17 as claimed: with a query none of whose keywords is on any line of
\* the fetched changelog, the changelog field is the whole text as fetched,
\* not truncated, whatever its length, and never empty.
C17_NoMatchGivesFullText ==
  (/\ docPc \in {"migration", "done"} /\ ~docRejected
   /\ docIn.hasQuery /\ ~docIn.hits
   /\ docFetches.changelog.anyLong)
  => /\ docResult.changelog # EmptyField
     /\ ~docResult.changelog.truncated
     /\ docResult.changelog.lines = docIn.lines

\* C20 as claimed, for a package with a GitHub repository: the embedded
\* README is used and no repository README is fetched exactly when the
\* embedded copy is longer than 100 characters; otherwise the candidates are
\* fetched, and a non-empty embedded README is still the readme when all of
\* them fail.
C20_EmbeddedReadme ==
  (/\ docPc \in {"changelog", "migration", "done"} /\ ~docRejected
   /\ docIn.readme
   /\ ExtractGitHubRepo(docMeta.repoUrl).found)
  => /\ docFetches.readme.issued = 0 <=> docMeta.readmeLen > EmbeddedMinLen
     /\ docFetches.readme.issued = 0 => docResult.readme.src = RegistryReadme
     /\ (docMeta.readmeLen > 0 /\ docFetches.readme.issued > 0
           /\ ~docFetches.readme.anyLong)
          => docResult.readme.src = RegistryReadme

\* C23: when extractGitHubRepo finds no owner and repository in the URL of
\* the metadata, the call issues no fetch of a repository file, changelog
\* and migrationGuide stay empty, and the readme is what the README
\* embedded in the metadata gives (nothing when there is none or the
\* section is switched off).
C23_NoRepoNoRawFetch ==
  (/\ docPc \notin {"idle", "meta"} /\ ~docRejected
   /\ ~ExtractGitHubRepo(docMeta.repoUrl).found)
  => /\ docFetches.readme.issued = 0
     /\ docFetches.changelog.issued = 0
     /\ docFetches.migration.issued = 0
     /\ docResult.changelog = EmptyField
     /\ docResult.migrationGuide = EmptyField
     /\ docPc # "readme" =>
          docResult.readme =
            IF docIn.readme /\ docMeta.readmeLen > 0
            THEN Shown(TextOf(RegistryReadme, docMeta.readmeLen, docIn.lines),
                       docIn.hasQuery, docIn.hits, ReadmeMaxLines)
            ELSE EmptyField

\* C23's case: the repository is on another host, every section is asked
\* for and the embedded README is shorter than 100 characters; the call
\* returned it and fetched nothing.
C23_Witness ==
  /\ docPc = "done" /\ ~docRejected
  /\ docMeta.repoUrl = "https://gitlab.com/owner/repo"
  /\ docIn.readme /\ docIn.changelog /\ docIn.migration
  /\ docMeta.readmeLen = EmbeddedMinLen - 1
  /\ docResult.readme.src = RegistryReadme
  /\ docFetches.readme.issued + docFetches.changelog.issued
       + docFetches.migration.issued = 0

----------------------------------------------------------------------------
(* fetchFirstFound, fetch by fetch                                         *)

\* One call of fetchFirstFound on the README candidates: the fetches run in
\* parallel and settle in any order; Promise.all keeps each result at the
\* position of its path.
FfPaths == ReadmePaths

\* r && r.length > 50
Qualifies(r) == Truthy(r) /\ r.len > FirstFoundMinLen

\* A plausible slip: a race, the first qualifying result to arrive wins.
SelectFirstArrived(results, arrival) ==
  LET good == {k \in 1..Len(arrival) : Qualifies(results[arrival[k]])}
  IN  IF good = {} THEN EmptyString ELSE results[arrival[MinOf(good)]]

\* for (const r of results) { if (r && r.length > 50) return r; } return ""
SelectByPriority(results, arrival) ==
  LET good == {x \in 1..Len(results) : Qualifies(results[x])}
  IN  IF good = {} THEN EmptyString ELSE results[MinOf(good)]

FfInit ==
  /\ ffPc = "fetching"
  /\ ffResponses \in [1..Len(FfPaths) -> RawResponses]
  /\ ffResults = [x \in 1..Len(FfPaths) |-> NullText]
  /\ ffArrival = <<>>
  /\ ffReturn = NullText

\* The fetchUrl of the path at position x settles.
FfSettle(x) ==
  /\ ffPc = "fetching"
  /\ \A k \in 1..Len(ffArrival) : ffArrival[k] # x
  /\ ffResults' = [ffResults EXCEPT
                     ![x] = FetchUrl(FfPaths[x], ffResponses[x], 1).text]
  /\ ffArrival' = Append(ffArrival, x)
  /\ UNCHANGED <<ffPc, ffResponses, ffReturn>>
  /\ UNCHANGED <<dashVars, scoreVars, osvVars, docVars, utVars, invVars,
                 sevVars, strVars, migVars>>

\* Promise.all has resolved: the loop over the results and the return.
FfSelect ==
  /\ ffPc = "fetching"
  /\ Len(ffArrival) = Len(FfPaths)
  /\ ffReturn' = SelectByPriority(ffResults, ffArrival)
  /\ ffPc' = "done"
  /\ UNCHANGED <<ffResponses, ffResults, ffArrival>>
  /\ UNCHANGED <<dashVars, scoreVars, osvVars, docVars, utVars, invVars,
                 sevVars, strVars, migVars>>

InitFirstFound ==
  FfInit /\ DashIdle /\ ScoreIdle /\ OsvIdle /\ DocIdle /\ UtIdle /\ InvIdle
         /\ SevIdle /\ StrIdle /\ MigIdle

NextFirstFound ==
  \/ \E x \in 1..Len(FfPaths) : FfSettle(x)
  \/ FfSelect

SpecFirstFound == InitFirstFound /\ [][NextFirstFound]_vars

\* The positions whose fetch gives more than 50 characters.
LongAnswers == {x \in 1..Len(FfPaths) : ffResponses[x] = "long"}

\* C22: fetchFirstFound returns only when every fetch has settled, and what
\* it returns is the content of the earliest path of the list whose fetch
\* gave more than 50 characters, "" when there is none: the same for every
\* order in which the fetches settle.
C22_PriorityNotArrival ==
  ffPc = "done" =>
    /\ Len(ffArrival) = Len(FfPaths)
    /\ LongAnswers = {} => ffReturn = EmptyString
    /\ LongAnswers # {} =>
         /\ ffReturn.src = FfPaths[MinOf(LongAnswers)]
         /\ ffReturn.len > FirstFoundMinLen
    /\ ffReturn = FetchFirstFound(FfPaths, ffResponses, 1).text

\* C22's case: the first and the last path both have a document, the last
\* one settled first, and the call returned the document of the first.
C22_Witness ==
  /\ ffPc = "done"
  /\ ffResponses[1] = "long" /\ ffResponses[Len(FfPaths)] = "long"
  /\ ffArrival[1] = Len(FfPaths)
  /\ ffReturn.src = FfPaths[1]

----------------------------------------------------------------------------
(* getUpdateType (services/changelog.ts), as getProjectChangelog calls it  *)
(* for every package "npm outdated" reports.  A dotted numeric version is  *)
(* the sequence of its numbers: split(".").map(Number).                    *)

MaxParts == 3
MaxComponent == 2

Versions == UNION {[1..n -> 0..MaxComponent] : n \in 1..MaxParts}

\* (v[k] || 0): a missing component counts as 0 (k is the 0-based index).
Component(v, k) == IF k + 1 <= Len(v) THEN v[k + 1] ELSE 0

getUpdateType(current, latest) ==
  IF Component(latest, 0) > Component(current, 0) THEN "major"
  ELSE IF Component(latest, 1) > Component(current, 1) THEN "minor"
  ELSE "patch"

UtInit ==
  /\ utPc = "entry"
  /\ utCurrent \in Versions
  /\ utLatest \in Versions
  /\ utResult = "none"

\* The loop of getProjectChangelog skips a package whose two versions are
\* the same string.
UtSkip ==
  /\ utPc = "entry"
  /\ utCurrent = utLatest
  /\ utPc' = "done"
  /\ utResult' = "skipped"
  /\ UNCHANGED <<utCurrent, utLatest, dashVars, scoreVars, osvVars, docVars, invVars,
               sevVars, strVars, migVars, ffVars>>

UtClassify ==
  /\ utPc = "entry"
  /\ utCurrent # utLatest
  /\ utPc' = "done"
  /\ utResult' = getUpdateType(utCurrent, utLatest)
  /\ UNCHANGED <<utCurrent, utLatest, dashVars, scoreVars, osvVars, docVars, invVars,
               sevVars, strVars, migVars, ffVars>>

InitUpdateType ==
  UtInit /\ DashIdle /\ ScoreIdle /\ OsvIdle /\ DocIdle /\ InvIdle /\ SevIdle /\ StrIdle /\ MigIdle /\ FfIdle

NextUpdateType == UtSkip \/ UtClassify

SpecUpdateType == InitUpdateType /\ [][NextUpdateType]_vars

\* C9: for every pair of different dotted numeric versions the update type
\* is given by the first differing component: major when the first
\* components differ, minor when the first are equal and the second differ,
\* patch otherwise.
C9_FirstDifferingComponent ==
  (utPc = "done" /\ utResult # "skipped") =>
    utResult =
      IF Component(utLatest, 0) # Component(utCurrent, 0) THEN "major"
      ELSE IF Component(utLatest, 1) # Component(utCurrent, 1) THEN "minor"
      ELSE "patch"

----------------------------------------------------------------------------
(* getInstalledPackages (services/osv.ts).  A string is the sequence of    *)
(* its characters; a node project directory is the state of its            *)
(* package.json and of node_modules/<name>/package.json for every name; a  *)
(* rust, python or go project directory is the state of its Cargo.lock,    *)
(* requirements.txt or go.sum and the entries the file holds.              *)

MaxDeps == 1
MaxLines == 3

InvNames == {"a", "b", "c"}

OperatorChars == {"^", "~", ">", "=", "<"}

\* Declared version specs: "^1", ">=2".
DeclaredSpecs == {<<"^", "1">>, <<">", "=", "2">>}

\* Versions a materialised package reports: "1", "3".
InstalledVersions == {<<"1">>, <<"3">>}

\* nm.version of a package.json that has no version field.
Undefined == <<"undefined">>

\* A plausible slip: only one leading operator character is removed.
StripOperatorOneChar(spec) ==
  IF spec # <<>> /\ Head(spec) \in OperatorChars THEN Tail(spec) ELSE spec

RECURSIVE StripOperator(_)
\* String(spec).replace(/^[\^~>=<]+/, ""): drop the leading run of operator
\* characters.
StripOperator(spec) ==
  IF spec # <<>> /\ Head(spec) \in OperatorChars
  THEN StripOperator(Tail(spec))
  ELSE spec

\* The state of node_modules/<name>/package.json.
NmStates ==
  {[state |-> st, version |-> Undefined] :
      st \in {"absent", "badjson", "jsonnull", "noversion"}}
  \cup {[state |-> "ok", version |-> v] : v \in InstalledVersions}

\* A dependencies object: entries in key order, keys distinct.
DepObjects ==
  {d \in SeqsUpTo([name : InvNames, spec : DeclaredSpecs], MaxDeps) :
     \A x, y \in 1..Len(d) : d[x].name = d[y].name => x = y}

KeysOf(obj) == {obj[x].name : x \in 1..Len(obj)}

ValueOf(obj, name) == (CHOOSE x \in 1..Len(obj) : obj[x].name = name)

\* { ...pkg.dependencies, ...pkg.devDependencies }: the keys of the first in
\* their order, then the new keys of the second; a key of both takes the
\* value of the second.
SpreadMerge(deps, devDeps) ==
  LET IsNew(e) == e.name \notin KeysOf(deps)
      first == [x \in 1..Len(deps) |->
                  IF deps[x].name \in KeysOf(devDeps)
                  THEN devDeps[ValueOf(devDeps, deps[x].name)]
                  ELSE deps[x]]
  IN  first \o SelectSeq(devDeps, IsNew)

\* The version pushed for a declared package, always the declared spec
\* with its operator stripped.
ResolveVersionDeclared(spec, nm) == StripOperator(spec)

\* The version pushed for a declared package: nm.version when the installed
\* package.json exists and parses to an object, else the declared spec with
\* its operator stripped.
ResolveVersion(spec, nm) ==
  IF nm.state \in {"ok", "noversion"}
  THEN nm.version
  ELSE StripOperator(spec)

\* The names a lockfile entry may carry.
LockNames == {"a", "b"}

\* m[2] of a go.sum line whose version ends in "/go.mod".
GoModSuffix == "/go.mod"

\* The entries of Cargo.lock (a [[package]] block with name and version),
\* of requirements.txt (a line name==version) and of go.sum (a line
\* "module vVERSION hash", the version with or without "/go.mod"); "other"
\* is text the regex of the language does not match.
NoEntry == [kind |-> "other", name |-> "", version |-> <<>>]

LockEntries(language) ==
  {NoEntry}
  \cup {[kind |-> "pkg", name |-> n, version |-> v] :
          n \in LockNames, v \in InstalledVersions}
  \cup IF language = "go"
       THEN {[kind |-> "pkg", name |-> n, version |-> Append(v, GoModSuffix)] :
               n \in LockNames, v \in InstalledVersions}
       ELSE {}

\* m[2].replace(/\/go\.mod$/, "")
StripGoMod(version) ==
  IF version # <<>> /\ version[Len(version)] = GoModSuffix
  THEN SubSeq(version, 1, Len(version) - 1)
  ELSE version

IsPkg(entry) == entry.kind = "pkg"

\* rust and python: every match of the regex is pushed.
MatchesOf(lines) ==
  LET matches == SelectSeq(lines, IsPkg)
  IN  [x \in 1..Len(matches) |->
         [name |-> matches[x].name, version |-> matches[x].version]]

\* go: a match is pushed unless its module name was seen before.
RECURSIVE GoSumPackages(_, _)
GoSumPackages(lines, seen) ==
  IF lines = <<>> THEN <<>>
  ELSE LET m == Head(lines)
       IN  IF IsPkg(m) /\ m.name \notin seen
           THEN <<[name |-> m.name, version |-> StripGoMod(m.version)]>>
                  \o GoSumPackages(Tail(lines), seen \cup {m.name})
           ELSE GoSumPackages(Tail(lines), seen)

\* readFileSync outside any try: the rust, python and go branches read the
\* file after existsSync said it is there.
ReadFileThrows(fs) ==
  fs.language \in {"rust", "python", "go"} /\ fs.manifest = "unreadable"

\* What getInstalledPackages returns when it returns.
getInstalledPackages(fs) ==
  IF fs.language = "rust" THEN
    IF fs.manifest = "missing" THEN <<>> ELSE MatchesOf(fs.lines)
  ELSE IF fs.language = "python" THEN
    IF fs.manifest = "missing" THEN <<>> ELSE MatchesOf(fs.lines)
  ELSE IF fs.language = "go" THEN
    IF fs.manifest = "missing" THEN <<>> ELSE GoSumPackages(fs.lines, {})
  ELSE IF fs.language # "node" THEN <<>>
  ELSE IF fs.manifest = "missing" THEN <<>>
  ELSE IF fs.manifest \in {"unreadable", "badjson", "jsonnull"} THEN <<>>
  ELSE LET allDeps == SpreadMerge(fs.dependencies, fs.devDependencies)
       IN  [x \in 1..Len(allDeps) |->
              [name    |-> allDeps[x].name,
               version |-> ResolveVersion(allDeps[x].spec,
                                          fs.node_modules[allDeps[x].name])]]

NotInstalled == [n \in InvNames |-> [state |-> "absent", version |-> Undefined]]

\* The directory of a node project.
NodeDir(manifest, dependencies, devDependencies, node_modules) ==
  [language |-> "node", manifest |-> manifest, dependencies |-> dependencies,
   devDependencies |-> devDependencies, node_modules |-> node_modules,
   lines |-> <<>>]

\* The directory of a rust, python or go project: its file is missing, there
\* but not readable (a directory of that name, no read permission), or
\* holds the given entries.
LockDir(language, manifest, lines) ==
  [language |-> language, manifest |-> manifest, dependencies |-> <<>>,
   devDependencies |-> <<>>, node_modules |-> NotInstalled, lines |-> lines]

InvInit ==
  /\ invPc = "call"
  /\ \/ \E m \in {"missing", "unreadable", "badjson", "jsonnull"} :
          \E nm \in [InvNames -> NmStates] : invFs = NodeDir(m, <<>>, <<>>, nm)
     \/ \E d \in DepObjects, dd \in DepObjects :
          \E nm \in [InvNames -> NmStates] : invFs = NodeDir("ok", d, dd, nm)
     \/ \E l \in {"rust", "python", "go"} :
          \/ \E m \in {"missing", "unreadable"} : invFs = LockDir(l, m, <<>>)
          \/ \E ls \in SeqsUpTo(LockEntries(l), MaxLines) : invFs = LockDir(l, "ok", ls)
  /\ invResult = <<>>
  /\ invThrew = FALSE

InvGetInstalledPackages ==
  /\ invPc = "call"
  /\ invPc' = "done"
  /\ invThrew' = ReadFileThrows(invFs)
  /\ invResult' = IF ReadFileThrows(invFs) THEN <<>> ELSE getInstalledPackages(invFs)
  /\ UNCHANGED <<invFs, dashVars, scoreVars, osvVars, docVars, utVars,
               sevVars, strVars, migVars, ffVars>>

InitInventory ==
  InvInit /\ DashIdle /\ ScoreIdle /\ OsvIdle /\ DocIdle /\ UtIdle /\ SevIdle /\ StrIdle /\ MigIdle /\ FfIdle

NextInventory == InvGetInstalledPackages

SpecInventory == InitInventory /\ [][NextInventory]_vars

\* The names the manifest declares, in dependencies or devDependencies.
Declared == KeysOf(invFs.dependencies) \cup KeysOf(invFs.devDependencies)

\* C10: every package the manifest declares with a range and whose
\* installed package.json reports version V is listed once, with version V
\* and not with its declared range.
C10_InstalledWins ==
  invPc = "done" =>
    \A name \in Declared :
      invFs.node_modules[name].state = "ok" =>
        /\ Cardinality({x \in 1..Len(invResult) : invResult[x].name = name}) = 1
        /\ \A x \in 1..Len(invResult) :
             invResult[x].name = name =>
               /\ invResult[x].version = invFs.node_modules[name].version
               /\ invResult[x].version \notin DeclaredSpecs

\* C10's case: a package declared with a range that strips to another
\* version than the installed one is listed with the installed version, next
\* to a declared package that is not installed and keeps its stripped range.
C10_Witness ==
  /\ invPc = "done"
  /\ Len(invResult) = 2
  /\ invFs.dependencies # <<>> /\ invFs.devDependencies # <<>>
  /\ invFs.node_modules[invResult[1].name] = [state |-> "ok", version |-> <<"3">>]
  /\ invResult[1].version = <<"3">>
  /\ invFs.node_modules[invResult[2].name].state = "absent"
  /\ invResult[2].version = <<"2">>

\* The file gives no package: it is missing, cannot be read, or nothing in
\* it parses.
Unavailable(fs) ==
  \/ fs.manifest \in {"missing", "unreadable", "badjson", "jsonnull"}
  \/ /\ fs.language \in {"rust", "python", "go"}
     /\ \A x \in 1..Len(fs.lines) : ~IsPkg(fs.lines[x])

\* C11 as claimed: for node, rust, python and go, getInstalledPackages does
\* not throw and returns the empty list when the manifest or lockfile is
\* missing, cannot be read or cannot be parsed.
C11_EmptyNeverThrows ==
  (invPc = "done" /\ Unavailable(invFs)) => (~invThrew /\ invResult = <<>>)

\* The first entry of the file that names a package.
FirstOccurrence(lines, name) ==
  lines[CHOOSE x \in 1..Len(lines) :
          /\ IsPkg(lines[x]) /\ lines[x].name = name
          /\ \A y \in 1..(x - 1) : ~(IsPkg(lines[y]) /\ lines[y].name = name)]

\* C12 as claimed: an inventory built from Cargo.lock, requirements.txt or
\* go.sum holds no name twice, and the entry kept for a name is its first
\* occurrence in the file.
C12_FirstOccurrenceWins ==
  (invPc = "done" /\ ~invThrew /\ invFs.language \in {"rust", "python", "go"}) =>
    \A x \in 1..Len(invResult) :
      /\ \A y \in 1..Len(invResult) : invResult[x].name = invResult[y].name => x = y
      /\ invResult[x].version =
           StripGoMod(FirstOccurrence(invFs.lines, invResult[x].name).version)

----------------------------------------------------------------------------
(* mapSeverity (services/osv.ts) on its own: every score from 0.0 up, in   *)
(* tenths, and the absent score.                                           *)

MaxScore == 100

SevInit ==
  /\ sevPc = "call"
  /\ sevScore \in {<<>>} \cup {<<s>> : s \in 0..MaxScore}
  /\ sevResult = "none"

SevMapSeverity ==
  /\ sevPc = "call"
  /\ sevPc' = "done"
  /\ sevResult' = MapSeverity(sevScore)
  /\ UNCHANGED <<sevScore, dashVars, scoreVars, osvVars, docVars, utVars,
                 invVars, strVars, migVars, ffVars>>

InitSeverity ==
  SevInit /\ DashIdle /\ ScoreIdle /\ OsvIdle /\ DocIdle /\ UtIdle /\ InvIdle
          /\ StrIdle /\ MigIdle /\ FfIdle

NextSeverity == SevMapSeverity

SpecSeverity == InitSeverity /\ [][NextSeverity]_vars

\* C13 as claimed: a numeric score s maps to critical when s >= 9.0, high
\* when 7.0 <= s < 9.0, moderate when 4.0 <= s < 7.0 and low when s < 4.0;
\* moderate is returned only by that threshold or when there is no score.
C13_SeverityThresholds ==
  sevPc = "done" =>
    sevResult =
      IF sevScore = <<>> THEN "moderate"
      ELSE IF sevScore[1] >= 90 THEN "critical"
      ELSE IF sevScore[1] >= 70 THEN "high"
      ELSE IF sevScore[1] >= 40 THEN "moderate"
      ELSE "low"

----------------------------------------------------------------------------
(* The operator stripping of getInstalledPackages and getFrameworkMajor on *)
(* its own: one version declared twice, behind two operators.              *)

MaxVersionLen == 3

\* ^, ~, >=, <=, >, <, =
Operators == {<<"^">>, <<"~">>, <<">", "=">>, <<"<", "=">>, <<">">>, <<"<">>, <<"=">>}

VersionChars == {"1", "2", "."}

\* The versions: strings that do not begin with an operator character.
PlainVersions == UNION {[1..n -> VersionChars] : n \in 1..MaxVersionLen}

StrInit ==
  /\ strPc = "call"
  /\ strIn \in [version : PlainVersions, op1 : Operators, op2 : Operators]
  /\ strOut = <<>>

StrStrip ==
  /\ strPc = "call"
  /\ strPc' = "done"
  /\ strOut' = <<StripOperator(strIn.op1 \o strIn.version),
                 StripOperator(strIn.op2 \o strIn.version)>>
  /\ UNCHANGED <<strIn, dashVars, scoreVars, osvVars, docVars, utVars,
                 invVars, sevVars, migVars, ffVars>>

InitStrip ==
  StrInit /\ DashIdle /\ ScoreIdle /\ OsvIdle /\ DocIdle /\ UtIdle /\ InvIdle
          /\ SevIdle /\ MigIdle /\ FfIdle

NextStrip == StrStrip

SpecStrip == InitStrip /\ [][NextStrip]_vars

\* C19: two declared strings made of the same version behind one of the
\* operators ^, ~, >=, <=, >, <, = are stripped to the same string, the
\* version itself.
C19_OperatorIndependent ==
  strPc = "done" =>
    /\ strOut[1] = strOut[2]
    /\ strOut[1] = strIn.version

\* C19's case: a version of three characters declared behind >= and behind
\* ^ has been stripped.
C19_Witness ==
  /\ strPc = "done"
  /\ strIn.op1 = <<">", "=">> /\ strIn.op2 = <<"^">>
  /\ Len(strIn.version) = 3
  /\ strOut = <<strIn.version, strIn.version>>

----------------------------------------------------------------------------
(* detectMigration (services/migrate.ts)                                   *)

\* A regex is modelled by the words it matches; a line of a file is a
\* sequence of words, and a position in it counts words.
Pattern(source, words, exts, type) ==
  [source |-> source, words |-> words, fileExtensions |-> exts, type |-> type]

SveltePatterns ==
  <<Pattern("export\\s+let\\s+", {"export let "}, {".svelte"}, "breaking"),
    Pattern("\\$:\\s+", {"$: "}, {".svelte"}, "breaking"),
    Pattern("createEventDispatcher", {"createEventDispatcher"},
            {".svelte", ".ts", ".js"}, "breaking"),
    Pattern("on:click|on:submit|on:change|on:input|on:keydown",
            {"on:click", "on:submit", "on:change", "on:input", "on:keydown"},
            {".svelte"}, "breaking"),
    Pattern("<slot\\s*\\/?>|<slot\\s+name=", {"<slot>", "<slot name="},
            {".svelte"}, "breaking"),
    Pattern("svelte-preprocess", {"svelte-preprocess"},
            {".ts", ".js", ".json"}, "deprecated"),
    Pattern("afterUpdate|beforeUpdate", {"afterUpdate", "beforeUpdate"},
            {".svelte", ".ts", ".js"}, "breaking"),
    Pattern("\\$\\$props|\\$\\$restProps", {"$$props", "$$restProps"},
            {".svelte"}, "breaking")>>

Next13Patterns ==
  <<Pattern("next\\/image", {"next/image"}, {".tsx", ".jsx", ".ts", ".js"}, "recommended")>>

Next14Patterns ==
  <<Pattern("getServerSideProps|getStaticProps", {"getServerSideProps", "getStaticProps"},
            {".tsx", ".jsx", ".ts", ".js"}, "deprecated")>>

MIGRATION_RULES ==
  <<[framework |-> "svelte", fromMajor |-> 4, toMajor |-> 5,
     guideUrl |-> "https://svelte.dev/docs/svelte/v5-migration-guide",
     patterns |-> SveltePatterns],
    [framework |-> "next", fromMajor |-> 13, toMajor |-> 14,
     guideUrl |-> "https://nextjs.org/docs/app/building-your-application/upgrading/version-14",
     patterns |-> Next13Patterns],
    [framework |-> "next", fromMajor |-> 14, toMajor |-> 15,
     guideUrl |-> "https://nextjs.org/docs/app/building-your-application/upgrading/version-15",
     patterns |-> Next14Patterns]>>

\* The framework names a project is scanned under.
Frameworks == {"svelte", "SvelteKit", "next", "Next.js", "nuxt"}

\* framework.toLowerCase()
ToLowerCase(framework) ==
  CASE framework = "SvelteKit" -> "sveltekit"
    [] framework = "Next.js"   -> "next.js"
    [] OTHER                   -> framework

\* framework.toLowerCase().replace("sveltekit", "svelte").replace("next.js", "next")
NormalizeFramework(framework) ==
  LET lower == ToLowerCase(framework)
      first == IF lower = "sveltekit" THEN "svelte" ELSE lower
  IN  IF first = "next.js" THEN "next" ELSE first

\* fwPackages[framework.toLowerCase()] || framework.toLowerCase()
FwPackage(framework) ==
  LET lower == ToLowerCase(framework)
  IN  CASE lower = "sveltekit" -> "svelte"
        [] lower = "next.js"   -> "next"
        [] OTHER               -> lower

\* A number | null as getFrameworkMajor returns it; parseInt gives NaN for a
\* string that does not begin with digits.
Num(n) == [kind |-> "number", n |-> n]
NaN    == [kind |-> "NaN", n |-> 0]
Null   == [kind |-> "null", n |-> 0]

\* !value
Falsy(value) == value.kind # "number" \/ value.n = 0

\* The runs of digits that occur in versions, each one character of the
\* model, and the number parseInt reads from them.
DigitRuns == {"0", "4", "5", "13", "14", "15"}

NumberOf(digits) ==
  CASE digits = "0" -> 0 [] digits = "4" -> 4 [] digits = "5" -> 5
    [] digits = "13" -> 13 [] digits = "14" -> 14 [] digits = "15" -> 15

\* parseInt(version.split(".")[0], 10)
ParseMajor(version) ==
  IF version # <<>> /\ Head(version) \in DigitRuns
  THEN Num(NumberOf(Head(version)))
  ELSE NaN


\* getFrameworkMajor. Of package.json and node_modules only what is said of
\* the package of the framework is read: project.spec is allDeps[pkgName]
\* (<<>> when it is not declared), project.nm the state of
\* node_modules/<pkgName>/package.json. Anything thrown gives null.
getFrameworkMajor(project) ==
  IF project.manifest = "missing" THEN Null
  ELSE IF project.manifest = "badjson" THEN Null
  ELSE IF project.spec = <<>> THEN Null
  ELSE IF project.nm.state = "ok" THEN ParseMajor(project.nm.version)
  ELSE IF project.nm.state = "badjson" THEN Null
  ELSE ParseMajor(StripOperator(project.spec))

\* A plausible slip: the rules are filtered by framework only.
RuleMatchesAnyMajor(rule, framework, currentMajor) ==
  ToLowerCase(rule.framework) = NormalizeFramework(framework)

\* The predicate of MIGRATION_RULES.filter.
RuleMatches(rule, framework, currentMajor) ==
  /\ ToLowerCase(rule.framework) = NormalizeFramework(framework)
  /\ rule.fromMajor = currentMajor.n

\* A plausible slip: the filter is dropped and the table is taken whole.
AllRules(framework, currentMajor) == MIGRATION_RULES

\* MIGRATION_RULES.filter(...), reached with a truthy currentMajor.
MatchingRules(framework, currentMajor) ==
  LET Matches(rule) == RuleMatches(rule, framework, currentMajor)
  IN  SelectSeq(MIGRATION_RULES, Matches)

----------------------------------------------------------------------------
(* The file tree of a project and walkFiles                                *)

MaxDepth == 5

SKIP_DIRS ==
  {"node_modules", ".git", ".svelte-kit", ".next", ".nuxt", "dist", "build",
   ".vercel", ".cache", "vendor", "target", "__pycache__"}

\* The names of the directory entries of the modelled trees.
AppSvelte   == "App.svelte"
UtilTs      == "util.ts"
DepSvelte   == "dep.svelte"
HSvelte     == "h.svelte"
DeepSvelte  == "deep.svelte"
FarSvelte   == "far.svelte"
SrcDir      == "src"
NodeModules == "node_modules"
HiddenDir   == ".hidden"
EslintrcJs  == ".eslintrc.js"
DDir        == "d"

\* entry.name.startsWith(".")
StartsWithDot(name) ==
  name \in {HiddenDir, EslintrcJs, ".git", ".svelte-kit", ".next", ".nuxt", ".vercel",
            ".cache"}

\* extname(entry.name)
ExtName(name) ==
  CASE name \in {AppSvelte, DepSvelte, HSvelte, DeepSvelte, FarSvelte} -> ".svelte"
    [] name = UtilTs -> ".ts"
    [] name = EslintrcJs -> ".js"
    [] OTHER -> ""

\* The order in which readdirSync lists the entries of a directory.
ReaddirOrder ==
  <<EslintrcJs, HiddenDir, AppSvelte, DDir, DeepSvelte, DepSvelte, FarSvelte, HSvelte,
    NodeModules, SrcDir, UtilTs>>

\* The files a project may hold, by their path below the project root: one
\* MaxDepth directories down and one a level deeper among them, and a
\* hidden file at the root.
CandidatePaths ==
  {<<AppSvelte>>, <<SrcDir, UtilTs>>, <<NodeModules, DepSvelte>>,
   <<HiddenDir, HSvelte>>, <<EslintrcJs>>,
   [x \in 1..(MaxDepth + 1) |-> IF x <= MaxDepth THEN DDir ELSE DeepSvelte],
   [x \in 1..(MaxDepth + 2) |-> IF x <= MaxDepth + 1 THEN DDir ELSE FarSvelte]}

IsPrefix(dir, path) ==
  Len(dir) <= Len(path) /\ SubSeq(path, 1, Len(dir)) = dir

\* readdirSync(dir, {withFileTypes: true}) on a tree given by its files.
Readdir(tree, dir) ==
  LET Here(entry) == \E path \in DOMAIN tree : IsPrefix(Append(dir, entry), path)
  IN  SelectSeq(ReaddirOrder, Here)

\* entry.isDirectory()
IsDirectory(tree, path) ==
  \E file \in DOMAIN tree : IsPrefix(path, file) /\ Len(file) > Len(path)

\* A plausible slip: only the names that start with a dot are skipped.
SkippedDotOnly(entry) == StartsWithDot(entry)

\* entry.name.startsWith(".") || SKIP_DIRS.has(entry.name)
Skipped(entry) == StartsWithDot(entry) \/ entry \in SKIP_DIRS

RECURSIVE walkFiles(_, _, _, _)
RECURSIVE WalkEntries(_, _, _, _, _)

\* The loop of walkFiles over the entries of dir.
WalkEntries(tree, dir, extensions, depth, entries) ==
  IF entries = <<>> THEN [files |-> <<>>, listed |-> {}]
  ELSE LET entry == Head(entries)
           full  == Append(dir, entry)
           rest  == WalkEntries(tree, dir, extensions, depth, Tail(entries))
       IN  IF Skipped(entry) THEN rest
           ELSE IF IsDirectory(tree, full)
           THEN LET sub == walkFiles(tree, full, extensions, depth + 1)
                IN  [files  |-> sub.files \o rest.files,
                     listed |-> sub.listed \cup rest.listed]
           ELSE IF ExtName(entry) \in extensions
           THEN [files |-> <<full>> \o rest.files, listed |-> rest.listed]
           ELSE rest

\* walkFiles(dir, extensions, maxDepth = 5, depth): the files collected, in
\* order, and the directories listed on the way.
walkFiles(tree, dir, extensions, depth) ==
  IF depth > MaxDepth THEN [files |-> <<>>, listed |-> {}]
  ELSE LET walked == WalkEntries(tree, dir, extensions, depth, Readdir(tree, dir))
       IN  [files |-> walked.files, listed |-> {dir} \cup walked.listed]

----------------------------------------------------------------------------
(* The scan of detectMigration                                             *)

MaxFiles == 2
MaxCalls == 2

\* regex.test(line) of a global regex: the search starts at lastIndex; a
\* match leaves lastIndex behind the match, a failure resets it to 0.
RegexTest(words, line, lastIndex) ==
  LET hits == {k \in (lastIndex + 1)..Len(line) : line[k] \in words}
  IN  IF hits = {} THEN [found |-> FALSE, lastIndex |-> 0]
      ELSE [found |-> TRUE, lastIndex |-> MinOf(hits)]

\* A plausible slip: the cursor is not reset before a line is tested.
KeepLastIndex(lastIndex) == lastIndex

\* pattern.regex.lastIndex = 0
ResetLastIndex(lastIndex) == 0

\* The issue pushed for a line (i counts lines from 0).
Issue(pattern, file, i) ==
  [type |-> pattern.type, pattern |-> pattern.source, file |-> file, line |-> i + 1]

\* A plausible slip: one issue for every match on the line.
LineIssuesPerMatch(pattern, file, i, line, found) ==
  [x \in 1..Cardinality({k \in 1..Len(line) : line[k] \in pattern.words})
     |-> Issue(pattern, file, i)]

\* if (pattern.regex.test(lines[i])) { result.issues.push({...}) }
LineIssues(pattern, file, i, line, found) ==
  IF found THEN <<Issue(pattern, file, i)>> ELSE <<>>

RECURSIVE ScanLines(_, _, _, _, _)
\* for (let i = 0; i < lines.length; i++) { ... }
ScanLines(pattern, file, lines, i, lastIndex) ==
  IF i >= Len(lines) THEN [issues |-> <<>>, lastIndex |-> lastIndex]
  ELSE LET t    == RegexTest(pattern.words, lines[i + 1], ResetLastIndex(lastIndex))
           rest == ScanLines(pattern, file, lines, i + 1, t.lastIndex)
       IN  [issues    |-> LineIssues(pattern, file, i, lines[i + 1], t.found)
                            \o rest.issues,
            lastIndex |-> rest.lastIndex]

\* A plausible slip: the try encloses the loop, so a failed read ends the
\* scan of the pattern.
RemainingUntilThrow(tree, files) ==
  IF tree[Head(files)].readable THEN Tail(files) ELSE <<>>

\* The files the loop goes on with after a file: the catch is inside the
\* loop, so all that follow, whether the read threw or not.
Remaining(tree, files) == Tail(files)

RECURSIVE ScanFiles(_, _, _, _)
\* for (const file of files) { try { readFileSync ... } catch {} }
ScanFiles(pattern, tree, files, lastIndex) ==
  IF files = <<>> THEN [issues |-> <<>>, lastIndex |-> lastIndex]
  ELSE LET file == Head(files)
           here == IF tree[file].readable
                   THEN ScanLines(pattern, file, tree[file].lines, 0, lastIndex)
                   ELSE [issues |-> <<>>, lastIndex |-> lastIndex]
           rest == ScanFiles(pattern, tree, Remaining(tree, files), here.lastIndex)
       IN  [issues |-> here.issues \o rest.issues, lastIndex |-> rest.lastIndex]

RECURSIVE ScanPatterns(_, _, _)
\* for (const pattern of rule.patterns) { ... }: the issues, the cursors of
\* the regexes afterwards, the directories listed and the files read.
ScanPatterns(patterns, tree, regex) ==
  IF patterns = <<>>
  THEN [issues |-> <<>>, regex |-> regex, listed |-> {}, read |-> {}]
  ELSE LET pattern == Head(patterns)
           walked  == walkFiles(tree, <<>>, pattern.fileExtensions, 0)
           scanned == ScanFiles(pattern, tree, walked.files, regex[pattern.source])
           rest    == ScanPatterns(Tail(patterns), tree,
                                   [regex EXCEPT ![pattern.source] = scanned.lastIndex])
       IN  [issues |-> scanned.issues \o rest.issues,
            regex  |-> rest.regex,
            listed |-> walked.listed \cup rest.listed,
            read   |-> {walked.files[x] : x \in 1..Len(walked.files)} \cup rest.read]

NullUrl == [kind |-> "null", url |-> ""]
Url(u)  == [kind |-> "string", url |-> u]

\* A plausible slip: the flag is set as soon as a rule applies.
MigrationNeededForRule(issues) == TRUE

\* result.migrationNeeded = result.issues.length > 0
MigrationNeeded(issues) == Len(issues) > 0

\* detectMigration: the MigrationResult, the cursors of the regexes after
\* the call, and what the call listed and read.
detectMigration(project, regex) ==
  LET currentMajor == getFrameworkMajor(project)
      result == [framework |-> project.framework,
                 currentVersion |-> IF Falsy(currentMajor) THEN Null ELSE currentMajor,
                 latestMajor |-> Null, migrationNeeded |-> FALSE, issues |-> <<>>,
                 migrationGuideUrl |-> NullUrl]
      untouched == [result |-> result, regex |-> regex,
                    fx |-> [listed |-> {}, read |-> {}]]
  IN  IF Falsy(currentMajor) THEN untouched
      ELSE LET rules == MatchingRules(project.framework, currentMajor)
           IN  IF Len(rules) = 0 THEN untouched
               ELSE LET rule == rules[1]
                        scan == ScanPatterns(rule.patterns, project.tree, regex)
                    IN  [result |-> [result EXCEPT
                                       !.latestMajor = Num(rule.toMajor),
                                       !.migrationGuideUrl = Url(rule.guideUrl),
                                       !.issues = scan.issues,
                                       !.migrationNeeded = MigrationNeeded(scan.issues)],
                         regex |-> scan.regex,
                         fx |-> [listed |-> scan.listed, read |-> scan.read]]

----------------------------------------------------------------------------
(* The projects detectMigration is called on                               *)

\* allDeps[pkgName]: not declared, "^4.0", ">=14", "13.5", "latest".
MigSpecs ==
  {<<>>, <<"^", "4", ".", "0">>, <<">", "=", "14">>, <<"13", ".", "5">>, <<"latest">>}

\* node_modules/<pkgName>/package.json: absent, not JSON, or with version
\* "4.5", "0.9".
MigNmStates ==
  {[state |-> "absent", version |-> <<>>], [state |-> "badjson", version |-> <<>>]}
  \cup {[state |-> "ok", version |-> v] :
          v \in {<<"4", ".", "5">>, <<"0", ".", "9">>}}

\* The lines of a source file. In the first the pattern "export let" occurs
\* twice on line 1 and createEventDispatcher on the lines 2 and 3; the
\* second is a single line with one createEventDispatcher; the third is a
\* configuration that loads svelte-preprocess.
ComponentSource ==
  <<<<"export let ", "export let ">>,
    <<"createEventDispatcher">>,
    <<"createEventDispatcher", "next/image">>>>

OneLineSource == <<<<"createEventDispatcher">>>>

ConfigSource == <<<<"svelte-preprocess">>, <<"getStaticProps">>>>

\* A file of the tree: one that cannot be read, or its lines. The files
\* below src and at the root come in every state, the others with the
\* lines of a component.
FileStates(path) ==
  IF path \in {<<AppSvelte>>, <<SrcDir, UtilTs>>}
  THEN {[readable |-> FALSE, lines |-> <<>>],
        [readable |-> TRUE, lines |-> ComponentSource],
        [readable |-> TRUE, lines |-> OneLineSource]}
  ELSE IF path = <<EslintrcJs>>
  THEN {[readable |-> TRUE, lines |-> ConfigSource]}
  ELSE {[readable |-> TRUE, lines |-> ComponentSource]}

Trees ==
  UNION {{t \in [paths -> UNION {FileStates(q) : q \in paths}] :
            \A q \in paths : t[q] \in FileStates(q)} :
           paths \in {P \in SUBSET CandidatePaths : Cardinality(P) <= MaxFiles}}

MigProjects ==
  {[framework |-> f, manifest |-> m, spec |-> <<>>,
    nm |-> [state |-> "absent", version |-> <<>>], tree |-> t] :
      f \in Frameworks, m \in {"missing", "badjson"}, t \in Trees}
  \cup
  {[framework |-> f, manifest |-> "ok", spec |-> sp, nm |-> nm, tree |-> t] :
      f \in Frameworks, sp \in MigSpecs, nm \in MigNmStates, t \in Trees}

PatternSources ==
  UNION {{MIGRATION_RULES[r].patterns[x].source :
            x \in 1..Len(MIGRATION_RULES[r].patterns)} : r \in 1..Len(MIGRATION_RULES)}

NoEffects == [listed |-> {}, read |-> {}]

MigInit ==
  /\ migPc = "ready"
  /\ migIn \in MigProjects
  /\ migRegex = [source \in PatternSources |-> 0]
  /\ migResults = <<>>
  /\ migFx = NoEffects

\* One call of detectMigration on the project, its file tree unchanged
\* since the call before.
MigDetectMigration ==
  /\ migPc = "ready"
  /\ LET call == detectMigration(migIn, migRegex)
     IN  /\ migResults' = Append(migResults, call.result)
         /\ migRegex' = call.regex
         /\ migFx' = call.fx
  /\ migPc' = IF Len(migResults) + 1 >= MaxCalls THEN "done" ELSE "ready"
  /\ UNCHANGED <<migIn, dashVars, scoreVars, osvVars, docVars, utVars,
                 invVars, sevVars, strVars, ffVars>>

InitMigrate ==
  MigInit /\ DashIdle /\ ScoreIdle /\ OsvIdle /\ DocIdle /\ UtIdle /\ InvIdle
          /\ SevIdle /\ StrIdle /\ FfIdle

NextMigrate == MigDetectMigration

SpecMigrate == InitMigrate /\ [][NextMigrate]_vars

----------------------------------------------------------------------------
(* Claims on detectMigration                                               *)

\* The framework name an alias stands for.
ParentFramework(framework) ==
  CASE framework = "SvelteKit" -> "svelte"
    [] framework = "Next.js"   -> "next"
    [] OTHER                   -> framework

\* The rules whose framework and fromMajor are those of a call.
RulesFor(framework, major) ==
  {r \in 1..Len(MIGRATION_RULES) :
     /\ MIGRATION_RULES[r].framework = ParentFramework(framework)
     /\ MIGRATION_RULES[r].fromMajor = major}

\* C14: for every framework name and major version at most one rule of
\* MIGRATION_RULES matches; the rule a call applies is the one rule for its
\* framework and resolved major, and under an alias (SvelteKit, Next.js) the
\* call gives what it gives under the parent name.
C14_RuleUniquelyDetermined ==
  /\ \A f \in Frameworks : \A d \in DigitRuns :
       Len(MatchingRules(f, Num(NumberOf(d)))) <= 1
  /\ \A k \in 1..Len(migResults) :
       LET res   == migResults[k]
           major == getFrameworkMajor(migIn)
       IN  /\ res.latestMajor # Null =>
                \E r \in RulesFor(migIn.framework, major.n) :
                  /\ RulesFor(migIn.framework, major.n) = {r}
                  /\ res.latestMajor = Num(MIGRATION_RULES[r].toMajor)
                  /\ res.migrationGuideUrl = Url(MIGRATION_RULES[r].guideUrl)
           /\ (res.latestMajor = Null /\ ~Falsy(major)) =>
                RulesFor(migIn.framework, major.n) = {}
  /\ Len(migResults) >= 1 =>
       LET parent == [migIn EXCEPT !.framework = ParentFramework(migIn.framework)]
           asParent == detectMigration(parent, [source \in PatternSources |-> 0]).result
       IN  migResults[1] = [asParent EXCEPT !.framework = migIn.framework]

\* C14's case: a project scanned under the alias Next.js with next 13
\* declared got the rule from 13 to 14, and its issues.
C14_Witness ==
  /\ Len(migResults) >= 1
  /\ migIn.framework = "Next.js"
  /\ migResults[1].latestMajor = Num(14)
  /\ migResults[1].issues # <<>>

\* The pattern of the applied rule that an issue names.
PatternOf(issue, result) ==
  LET rule == MIGRATION_RULES[CHOOSE r \in 1..Len(MIGRATION_RULES) :
                Num(MIGRATION_RULES[r].toMajor) = result.latestMajor
                /\ Url(MIGRATION_RULES[r].guideUrl) = result.migrationGuideUrl]
  IN  rule.patterns[CHOOSE x \in 1..Len(rule.patterns) :
                      rule.patterns[x].source = issue.pattern]

\* C15: every issue refers to a file of the tree whose extension is in the
\* fileExtensions of the issue's pattern and whose path below the project
\* root has no component that is in SKIP_DIRS or starts with a dot.
C15_IssuesOnlyForEligibleFiles ==
  \A k \in 1..Len(migResults) :
    \A x \in 1..Len(migResults[k].issues) :
      LET issue == migResults[k].issues[x]
          file  == issue.file
      IN  /\ file \in DOMAIN migIn.tree
          /\ ExtName(file[Len(file)]) \in PatternOf(issue, migResults[k]).fileExtensions
          /\ \A c \in 1..Len(file) :
               ~StartsWithDot(file[c]) /\ file[c] \notin SKIP_DIRS

\* C15's case: the tree holds a component below node_modules and one at the
\* root, both with lines the patterns match, and the issues reported are
\* those of the one at the root.
C15_Witness ==
  /\ Len(migResults) >= 1
  /\ <<NodeModules, DepSvelte>> \in DOMAIN migIn.tree
  /\ <<AppSvelte>> \in DOMAIN migIn.tree
  /\ migIn.tree[<<NodeModules, DepSvelte>>].lines = ComponentSource
  /\ migResults[1].issues # <<>>
  /\ \A x \in 1..Len(migResults[1].issues) :
       migResults[1].issues[x].file = <<AppSvelte>>

\* C16: detectMigration called again on an unchanged tree returns the same
\* result, issue for issue in the same order: the lastIndex a regex was
\* left with by an earlier line or call changes nothing.
C16_ScanIdempotent ==
  \A j, k \in 1..Len(migResults) : migResults[j] = migResults[k]

\* C16's case: the second call has returned, and it reported again the file
\* of a single matching line on which the first call left the cursor of the
\* regex behind the match.
C16_Witness ==
  /\ Len(migResults) >= 2
  /\ \E x \in 1..Len(migResults[2].issues) :
       /\ migIn.tree[migResults[2].issues[x].file].lines = OneLineSource
       /\ migRegex[migResults[2].issues[x].pattern] > 0

\* C21: on every return path of detectMigration (version unresolved, no
\* matching rule, scan completed) migrationNeeded is true if and only if the
\* returned issue list is not empty.
C21_NeededIffIssues ==
  \A k \in 1..Len(migResults) :
    migResults[k].migrationNeeded <=> Len(migResults[k].issues) > 0

\* C21's case: a rule applied and the scan completed over a tree in which
\* nothing matched, so the result names the target major with no issue and
\* migrationNeeded false.
C21_Witness ==
  /\ Len(migResults) >= 1
  /\ migResults[1].latestMajor # Null
  /\ DOMAIN migIn.tree # {}
  /\ migResults[1].issues = <<>>
  /\ ~migResults[1].migrationNeeded

\* C24: when the major version of the framework cannot be resolved, or no
\* rule matches the framework and the major, detectMigration returns
\* migrationNeeded false, no issue, a null latestMajor and a null guide URL,
\* and the call lists no directory and reads no file of the project tree.
C24_NoRuleNoScan ==
  Len(migResults) >= 1 =>
    LET major == getFrameworkMajor(migIn)
        last  == migResults[Len(migResults)]
    IN  (Falsy(major) \/ RulesFor(migIn.framework, major.n) = {}) =>
          /\ ~last.migrationNeeded
          /\ last.issues = <<>>
          /\ last.latestMajor = Null
          /\ last.migrationGuideUrl = NullUrl
          /\ migFx.listed = {}
          /\ migFx.read = {}

\* C24's case: svelte is resolved to major 14, for which the table has no
\* rule, in a project whose root holds a component full of svelte 4
\* patterns; the call returned without touching the tree.
C24_Witness ==
  /\ Len(migResults) >= 1
  /\ migIn.framework = "svelte"
  /\ getFrameworkMajor(migIn) = Num(14)
  /\ <<AppSvelte>> \in DOMAIN migIn.tree
  /\ migIn.tree[<<AppSvelte>>].lines = ComponentSource
  /\ migResults[1].latestMajor = Null
  /\ migFx = NoEffects

\* C25: the issues of a result hold at most one issue for each file, line
\* number and pattern, also when the pattern occurs several times on the
\* line.
C25_OneIssuePerLine ==
  \A k \in 1..Len(migResults) :
    \A x, y \in 1..Len(migResults[k].issues) :
      LET a == migResults[k].issues[x]
          b == migResults[k].issues[y]
      IN  (a.file = b.file /\ a.line = b.line /\ a.pattern = b.pattern) => x = y

\* C25's case: line 1 of the component at the root holds "export let"
\* twice, and the result reports that line for that pattern.
C25_Witness ==
  /\ Len(migResults) >= 1
  /\ <<AppSvelte>> \in DOMAIN migIn.tree
  /\ migIn.tree[<<AppSvelte>>].readable
  /\ Cardinality({w \in 1..Len(migIn.tree[<<AppSvelte>>].lines[1]) :
                    migIn.tree[<<AppSvelte>>].lines[1][w] = "export let "}) >= 2
  /\ \E x \in 1..Len(migResults[1].issues) :
       /\ migResults[1].issues[x].file = <<AppSvelte>>
       /\ migResults[1].issues[x].line = 1
       /\ migResults[1].issues[x].pattern = SveltePatterns[1].source

\* The tree without the file at path.
Without(tree, path) == [q \in DOMAIN tree \ {path} |-> tree[q]]

\* C26: when the read of a collected file fails, the call still returns a
\* result, none of its issues is of that file, and its issues are exactly
\* those of the same call on the tree without the file.
C26_FailedReadSkipsFile ==
  \A k \in 1..Len(migResults) :
    \A path \in DOMAIN migIn.tree :
      ~migIn.tree[path].readable =>
        LET absent == [migIn EXCEPT !.tree = Without(migIn.tree, path)]
        IN  /\ \A x \in 1..Len(migResults[k].issues) :
                 migResults[k].issues[x].file # path
            /\ migResults[k].issues
                 = detectMigration(absent, [source \in PatternSources |-> 0]).result.issues

\* C26's case: the component at the root cannot be read and is collected
\* before src/util.ts, whose lines match; the issues reported are those of
\* src/util.ts.
C26_Witness ==
  /\ Len(migResults) >= 1
  /\ DOMAIN migIn.tree = {<<AppSvelte>>, <<SrcDir, UtilTs>>}
  /\ ~migIn.tree[<<AppSvelte>>].readable
  /\ <<AppSvelte>> \in migFx.read
  /\ migResults[1].issues # <<>>
  /\ \A x \in 1..Len(migResults[1].issues) :
       migResults[1].issues[x].file = <<SrcDir, UtilTs>>

\* The extensions of the patterns of the rule a call applied.
AppliedExtensions ==
  LET r    == CHOOSE r \in RulesFor(migIn.framework, getFrameworkMajor(migIn).n) : TRUE
      rule == MIGRATION_RULES[r]
  IN  UNION {rule.patterns[x].fileExtensions : x \in 1..Len(rule.patterns)}

\* C27 as claimed: the walk ends having listed no directory below the depth
\* bound of 5, collects no file that lies more than 5 directory levels
\* below the project root, and collects every file at or within the bound
\* whose extension a pattern allows and whose directories are neither
\* skipped nor hidden.
C27_WalkBoundedAndComplete ==
  (Len(migResults) >= 1 /\ migResults[1].latestMajor # Null) =>
    /\ \A dir \in migFx.listed : Len(dir) <= MaxDepth
    /\ \A path \in migFx.read : Len(path) - 1 <= MaxDepth
    /\ \A path \in DOMAIN migIn.tree :
         ( /\ Len(path) - 1 <= MaxDepth
           /\ ExtName(path[Len(path)]) \in AppliedExtensions
           /\ \A c \in 1..(Len(path) - 1) :
                ~StartsWithDot(path[c]) /\ path[c] \notin SKIP_DIRS )
         => path \in migFx.read

====
